---- MODULE Spec2Model ----
(***************************************************************************)
(* The multiplayer server of the Dino game: the connection registry        *)
(* (ws.Hub), the matchmaker (game.Matchmaker) and the message handlers of  *)
(* a connection (ws.ServeWs, handleMessage, notifyOpponent, SendJSON).     *)
(***************************************************************************)
EXTENDS Integers, Sequences, FiniteSets, TLC

(***************************************************************************)
(* Bounds of the model.                                                    *)
(***************************************************************************)
\* Go's int is 64 bits wide; the model keeps the two's complement wrap-around
\* of payload.Score - client.Score at a width TLC can enumerate.
IntBits == 8
\* The capacity of a connection's Send channel (256 in the source), scaled.
SendCap == 2
\* The number of messages that enter the Send channels in a run.
MaxTraffic == 3
\* The width of the state of SeededRNG (32 in the source), scaled.
RngBits == 8
\* The number of frames of a game that are followed.
MaxFrames == 212
\* The number of WebSockets a GameSocket creates in a run.
MaxSockets == 7
\* The number of connections the matchmaker loop dequeues in a run.
MaxArrivals == 4

\* The anti-cheat bound of the UPDATE_SCORE handler.
MaxDelta == 50

\* The connection identifiers ServeWs hands out ("guest_" + 8 hex digits).
Conn == {"c1", "c2", "c3"}

\* The zero value of Client.RoomID; room n of a run has the identifier n.
NoRoom == 0
\* A nil *ws.Client.
Nil == "nil"
\* The WinnerID of a draw.
NoWinner == ""

MinInt == -(2 ^ (IntBits - 1))
MaxInt == (2 ^ (IntBits - 1)) - 1

\* x as a Go int: two's complement wrap-around.
Wrap(x) == ((x + 2 ^ (IntBits - 1)) % (2 ^ IntBits)) - 2 ^ (IntBits - 1)

\* The scores a client reports: the extremes of int, zero, and the two sides
\* of the anti-cheat bound.
Scores == {MinInt, 0, MaxDelta, MaxDelta + 1}

\* The display names of a JOIN_QUEUE payload.
Names == {"", "ann"}

\* rand.Int63() of createMatch.
Seeds == {7, 9}

(***************************************************************************)
(* State.                                                                  *)
(***************************************************************************)
\* The game of a browser, where the specification follows none.
NoGame == <<>>
\* The GameSocket of a browser, where the specification follows none.
NoSocket == <<>>

VARIABLES
    clients,     \* the Client structs: Name, RoomID, InQueue, Score, IsAlive
    send,        \* Client.Send: the number of messages buffered
    sent,        \* the messages passed to SendJSON for each connection
    closed,      \* the connections whose Send channel is closed
    hubClients,  \* Hub.clients: the Client registered under each identifier
    hubPending,  \* the request the hub loop received and has not applied yet
    readLoop,    \* ServeWs of each connection: "idle", "running" or "ended"
    queue,       \* Matchmaker.queue: the connections handed over, oldest first
    waiting,     \* the local variable waiting of Matchmaker.Run
    nextRoom,    \* the number of rooms created so far
    panicked,    \* a goroutine panicked: the process is gone
    saved,       \* the db.SaveScore calls of the latest handler, in call order
    last,        \* the message the latest handler handled and how it ended
    arrivals,    \* the connections Matchmaker.Run dequeued, in order
    sessions,    \* the pairs createMatch was called with, in order
    handler,     \* where each connection's handleMessage is, and its locals
    outbound,    \* the messages on their way out of each connection
    ident,       \* Client.ID: the identifier ServeWs gave each connection
    logged,      \* the SaveScore errors the latest handler logged
    game,        \* the game a browser runs from the seed of GAME_START
    socket       \* the GameSocket of a browser and the WebSockets it created

\* Client.ID
ID(c) == ident[c]

vars == <<clients, send, sent, closed, hubClients, hubPending, readLoop, queue,
          waiting, nextRoom, panicked, saved, last, arrivals, sessions,
          handler, outbound, ident, logged, game,
          socket>>

\* NewClient: IsAlive is true, every other field has its zero value.
NewClient == [Name |-> "", RoomID |-> NoRoom, InQueue |-> FALSE,
              Score |-> 0, IsAlive |-> TRUE]

NoRequest == [kind |-> "none", c |-> Nil]

\* var winner *Client; isDraw := false
NoResult == [winner |-> Nil, isDraw |-> FALSE]

\* A connection whose read loop is not inside handleMessage.
Idle == [pc |-> "idle", payload |-> 0, roomClients |-> <<>>, i |-> 0,
         result |-> NoResult]
NoMessage == [op |-> "none", c |-> Nil, res |-> "none"]

(***************************************************************************)
(* Messages of the wire protocol, server to client.                        *)
(***************************************************************************)
GameStart(roomID, seed, me, myName, opp, oppName) ==
    [type |-> "GAME_START",
     payload |-> [roomId |-> roomID, seed |-> seed, myId |-> me,
                  myName |-> myName, opponentId |-> opp,
                  opponentName |-> oppName]]

OpponentUpdate(score, isAlive) ==
    [type |-> "OPPONENT_UPDATE",
     payload |-> [score |-> score, isAlive |-> isAlive]]

OpponentLeft(score) ==
    [type |-> "OPPONENT_LEFT",
     payload |-> [score |-> score, isAlive |-> FALSE]]

GameOver(winnerID, reason) ==
    [type |-> "GAME_OVER",
     payload |-> [winnerId |-> winnerID, reason |-> reason]]

(***************************************************************************)
(* The way out of a connection, message by message: the messages in Send   *)
(* (buffer, oldest first), the messages that ever entered Send (accepted)  *)
(* and the messages WritePump wrote to the socket (written).  The messages *)
(* are followed where the initial state holds NoTraffic for every          *)
(* connection; where it holds NotFollowed only the fill of Send is kept.   *)
(***************************************************************************)
NotFollowed == <<>>

\* Whether ob follows the messages of the connections.
Followed(ob) == DOMAIN ob = Conn

NoTraffic == [buffer |-> <<>>, accepted |-> <<>>, written |-> <<>>,
              pump |-> "running"]

\* Whether the loop of WritePump is still running for c.
Pumping(ob, c) == IF Followed(ob) THEN ob[c].pump = "running" ELSE TRUE

\* The message put in front of the messages waiting.
PutAtHead(ob, c, msg) ==
    IF ~Followed(ob) THEN ob
    ELSE [ob EXCEPT ![c].buffer = <<msg>> \o @,
                    ![c].accepted = Append(@, msg)]

\* case c.Send <- msgBytes: the message goes to the tail of the channel.
Put(ob, c, msg) ==
    IF ~Followed(ob) THEN ob
    ELSE [ob EXCEPT ![c].buffer = Append(@, msg),
                    ![c].accepted = Append(@, msg)]

\* The newest message of the channel taken instead of the oldest.
WrittenNewestFirst(ob, c) ==
    IF ~Followed(ob) THEN ob
    ELSE [ob EXCEPT ![c].buffer = SubSeq(@, 1, Len(@) - 1),
                    ![c].written = Append(@, ob[c].buffer[Len(ob[c].buffer)])]

\* case message, ok := <-c.Send, and the write of message to the socket.
Written(ob, c) ==
    IF ~Followed(ob) THEN ob
    ELSE [ob EXCEPT ![c].buffer = Tail(@),
                    ![c].written = Append(@, Head(ob[c].buffer))]

(***************************************************************************)
(* What a handler works on: the Client structs (cl), the fill of the Send   *)
(* buffers (sd), the messages it has passed to SendJSON (out), the         *)
(* SaveScore calls it has made (sv) and whether a send panicked (pn).  A   *)
(* handler is a function from such a world to the world it leaves.         *)
(*                                                                         *)
(* The server never reads a buffered message back (only WritePump forwards *)
(* it), so a buffer is kept as its fill.  Of the messages out[c] of a step *)
(* the first sd'[c] - sd[c] were buffered and the others were dropped: the *)
(* fill only grows within a step.                                          *)
(***************************************************************************)
World == [cl |-> clients, sd |-> send, buf |-> outbound,
          out |-> [c \in Conn |-> <<>>], sv |-> <<>>, pn |-> FALSE,
          res |-> "none", fail |-> {}, errs |-> <<>>]

\* The world of a handler during which the SaveScore calls for the
\* connections of fail return an error.
WorldWhen(fail) == [World EXCEPT !.fail = fail]

\* Client.SendJSON: a send on a closed channel panics; a full buffer drops
\* the message; otherwise the message is appended.
SendJSON(w, c, msg) ==
    IF w.pn THEN w
    ELSE IF c \in closed THEN [w EXCEPT !.pn = TRUE]
    ELSE IF w.sd[c] < SendCap
         THEN [w EXCEPT !.sd[c] = @ + 1, !.buf = Put(@, c, msg),
                        !.out[c] = Append(@, msg)]
    ELSE [w EXCEPT !.out[c] = Append(@, msg)]

\* The values of the map Hub.clients.
Registered == {hubClients[id] : id \in DOMAIN hubClients}

\* Hub.GetClient: the client registered under id, and whether there is one.
GetClient(id) ==
    IF id \in DOMAIN hubClients THEN [client |-> hubClients[id], ok |-> TRUE]
    ELSE [client |-> Nil, ok |-> FALSE]

\* A scan that returns every registered client.
GetClientsAnyRoom(cl, roomID) == Registered

\* Hub.GetClientsInRoom: the registered clients whose RoomID is roomID.
GetClientsInRoom(cl, roomID) == {c \in Registered : cl[c].RoomID = roomID}

\* The orders in which a range over the map Hub.clients can list the set S.
Orders(S) ==
    {s \in [1 .. Cardinality(S) -> S] : \A i, j \in DOMAIN s : i # j => s[i] # s[j]}

RECURSIVE SendEach(_, _, _)
SendEach(w, cs, msg) ==
    IF cs = <<>> THEN w
    ELSE SendEach(SendJSON(w, Head(cs), msg), Tail(cs), msg)

\* notifyOpponent without its test c.ID != client.ID.
notifyOpponentAndSelf(w, client, roomClients, msg) == SendEach(w, roomClients, msg)

\* notifyOpponent: roomClients is GetClientsInRoom(client.RoomID) as listed.
notifyOpponent(w, client, roomClients, msg) ==
    SendEach(w, SelectSeq(roomClients, LAMBDA c : ID(c) # ID(client)), msg)

(***************************************************************************)
(* handleMessage, one operator per message type.  p is the payload as      *)
(* json.Unmarshal leaves it: p.ok is false when it cannot be parsed.       *)
(***************************************************************************)
ScorePayloads ==
    {[ok |-> FALSE, score |-> 0]} \cup {[ok |-> TRUE, score |-> s] : s \in Scores}

JoinPayloads ==
    {[ok |-> FALSE, name |-> ""]} \cup {[ok |-> TRUE, name |-> n] : n \in Names}

\* The anti-cheat test of UPDATE_SCORE: payload.Score-client.Score > 50.
Suspicious(reported, stored) == Wrap(reported - stored) > MaxDelta

\* case "UPDATE_SCORE"
handleUpdateScore(w, client, p, roomClients) ==
    IF ~p.ok THEN [w EXCEPT !.res = "parse_error"]
    ELSE IF Suspicious(p.score, w.cl[client].Score)
    THEN [notifyOpponent(w, client, roomClients,
                         OpponentUpdate(w.cl[client].Score, w.cl[client].IsAlive))
            EXCEPT !.res = "rejected"]
    ELSE LET w1 == [w EXCEPT !.cl[client].Score = p.score]
         IN  [notifyOpponent(w1, client, roomClients,
                             OpponentUpdate(w1.cl[client].Score, w1.cl[client].IsAlive))
                EXCEPT !.res = "accepted"]

\* The iteration with the test for equal scores left out.
WinnerStepNoDraw(cl, acc, c) ==
    IF acc.winner = Nil THEN [winner |-> c, isDraw |-> acc.isDraw]
    ELSE IF cl[c].Score > cl[acc.winner].Score
         THEN [winner |-> c, isDraw |-> FALSE]
    ELSE acc

\* One iteration of the loop "Determine winner by highest score", for c.
WinnerStep(cl, acc, c) ==
    IF acc.winner = Nil THEN [winner |-> c, isDraw |-> acc.isDraw]
    ELSE IF cl[c].Score > cl[acc.winner].Score
         THEN [winner |-> c, isDraw |-> FALSE]
    ELSE IF cl[c].Score = cl[acc.winner].Score
         THEN [winner |-> acc.winner, isDraw |-> TRUE]
    ELSE acc

\* The loop "Determine winner by highest score" over roomClients.
RECURSIVE DetermineWinner(_, _, _)
DetermineWinner(cl, roomClients, acc) ==
    IF roomClients = <<>> THEN acc
    ELSE DetermineWinner(cl, Tail(roomClients),
                         WinnerStep(cl, acc, Head(roomClients)))

\* The message with the reason "all_players_died" for a draw as well.
GameOverOneReason(r) ==
    IF r.isDraw THEN GameOver(NoWinner, "all_players_died")
    ELSE GameOver(ID(r.winner), "all_players_died")

\* The GAME_OVER message the loop "Notify all players" sends for a result.
GameOverOf(r) ==
    IF r.isDraw THEN GameOver(NoWinner, "draw")
    ELSE GameOver(ID(r.winner), "all_players_died")

GameOverMessage(cl, roomClients) ==
    GameOverOf(DetermineWinner(cl, roomClients, NoResult))

\* A SaveScore call that passes 0 for the score.
SaveScoreOfZero(cl, c) == [id |-> ID(c), name |-> cl[c].Name, score |-> 0]

\* A db.SaveScore(pgPool, c.ID, c.Name, c.Score) call.
SaveScore(cl, c) == [id |-> ID(c), name |-> cl[c].Name, score |-> cl[c].Score]

\* A SaveScore error that ends the handler.
SaveOrStop(w, c) ==
    LET w1 == [w EXCEPT !.sv = Append(@, SaveScore(w.cl, c))]
    IN  IF c \in w.fail THEN [w1 EXCEPT !.errs = Append(@, ID(c)), !.pn = TRUE]
        ELSE w1

\* if err := db.SaveScore(...); err != nil { log.Printf(...) }
Save(w, c) ==
    LET w1 == [w EXCEPT !.sv = Append(@, SaveScore(w.cl, c))]
    IN  IF c \in w.fail THEN [w1 EXCEPT !.errs = Append(@, ID(c))]
        ELSE w1

\* The loop "Persist scores to leaderboard".
RECURSIVE PersistScores(_, _)
PersistScores(w, roomClients) ==
    IF w.pn \/ roomClients = <<>> THEN w
    ELSE PersistScores(Save(w, Head(roomClients)), Tail(roomClients))

\* The iteration without c.RoomID = "".
CleanUpKeepsRoom(client) == [client EXCEPT !.IsAlive = TRUE, !.Score = 0]

\* One iteration of the loop "Clean up room".
CleanUp(client) == [client EXCEPT !.RoomID = NoRoom, !.IsAlive = TRUE, !.Score = 0]

\* The loop "Clean up room".
CleanUpRoom(w, roomClients) ==
    IF w.pn THEN w
    ELSE [w EXCEPT !.cl = [c \in Conn |->
            IF \E i \in 1 .. Len(roomClients) : roomClients[i] = c
            THEN CleanUp(w.cl[c])
            ELSE w.cl[c]]]

\* if allDead { ... }
EndGame(w, roomClients) ==
    CleanUpRoom(
        PersistScores(
            SendEach(w, roomClients, GameOverMessage(w.cl, roomClients)),
            roomClients),
        roomClients)

\* The check with allDead true as soon as one client of the room is dead.
SomeDead(cl, roomClients) ==
    \E i \in 1 .. Len(roomClients) : ~cl[roomClients[i]].IsAlive

\* allDead := true; for _, c := range roomClients { if c.IsAlive { ... } }
AllDead(cl, roomClients) ==
    \A i \in 1 .. Len(roomClients) : ~cl[roomClients[i]].IsAlive

\* case "PLAYER_DIED" with the anti-cheat test of UPDATE_SCORE.
handlePlayerDiedChecked(w, client, p, notified, roomClients) ==
    IF ~p.ok THEN [w EXCEPT !.res = "parse_error"]
    ELSE IF Suspicious(p.score, w.cl[client].Score)
    THEN [w EXCEPT !.res = "rejected"]
    ELSE LET w1 == [w EXCEPT !.cl[client].Score = p.score,
                             !.cl[client].IsAlive = FALSE]
             w2 == notifyOpponent(w1, client, notified,
                                  OpponentUpdate(w1.cl[client].Score, FALSE))
         IN  IF w2.pn THEN w2
             ELSE IF AllDead(w2.cl, roomClients)
             THEN [EndGame(w2, roomClients) EXCEPT !.res = "game_over"]
             ELSE [w2 EXCEPT !.res = "continues"]

\* case "PLAYER_DIED": notified is the room as notifyOpponent lists it,
\* roomClients the room as the handler's own GetClientsInRoom lists it.
handlePlayerDied(w, client, p, notified, roomClients) ==
    IF ~p.ok THEN [w EXCEPT !.res = "parse_error"]
    ELSE LET w1 == [w EXCEPT !.cl[client].Score = p.score,
                             !.cl[client].IsAlive = FALSE]
             w2 == notifyOpponent(w1, client, notified,
                                  OpponentUpdate(w1.cl[client].Score, FALSE))
         IN  IF w2.pn THEN w2
             ELSE IF AllDead(w2.cl, roomClients)
             THEN [EndGame(w2, roomClients) EXCEPT !.res = "game_over"]
             ELSE [w2 EXCEPT !.res = "continues"]

\* case "LEAVE_GAME" without its test client.RoomID == "".
handleLeaveGameAnywhere(w, client, roomClients) ==
    LET w1 == Save(w, client)
        w2 == notifyOpponent(w1, client, roomClients,
                             OpponentLeft(w1.cl[client].Score))
    IN  IF w2.pn THEN w2
        ELSE [w2 EXCEPT !.cl[client] = [@ EXCEPT !.RoomID = NoRoom,
                                                !.IsAlive = TRUE,
                                                !.Score = 0,
                                                !.InQueue = FALSE],
                        !.res = "left"]

\* case "LEAVE_GAME"
handleLeaveGame(w, client, roomClients) ==
    IF w.cl[client].RoomID = NoRoom THEN [w EXCEPT !.res = "not_in_game"]
    ELSE LET w1 == Save(w, client)
             w2 == notifyOpponent(w1, client, roomClients,
                                  OpponentLeft(w1.cl[client].Score))
         IN  IF w2.pn THEN w2
             ELSE [w2 EXCEPT !.cl[client] = [@ EXCEPT !.RoomID = NoRoom,
                                                     !.IsAlive = TRUE,
                                                     !.Score = 0,
                                                     !.InQueue = FALSE],
                             !.res = "left"]

\* createMatch with one room identifier for every match.
createMatchOneRoom(w, player1, player2, roomID, seed) ==
    LET w1 == [w EXCEPT !.cl[player1] = [@ EXCEPT !.RoomID = 1,
                                                  !.InQueue = FALSE,
                                                  !.IsAlive = TRUE,
                                                  !.Score = 0]]
        w2 == [w1 EXCEPT !.cl[player2] = [@ EXCEPT !.RoomID = 1,
                                                   !.InQueue = FALSE,
                                                   !.IsAlive = TRUE,
                                                   !.Score = 0]]
        w3 == SendJSON(w2, player1,
                       GameStart(1, seed, ID(player1), w2.cl[player1].Name,
                                 ID(player2), w2.cl[player2].Name))
    IN  SendJSON(w3, player2,
                 GameStart(1, seed, ID(player2), w3.cl[player2].Name,
                           ID(player1), w3.cl[player1].Name))

\* createMatch sending player2 the payload it sends player1.
createMatchOnePayload(w, player1, player2, roomID, seed) ==
    LET w1 == [w EXCEPT !.cl[player1] = [@ EXCEPT !.RoomID = roomID,
                                                  !.InQueue = FALSE,
                                                  !.IsAlive = TRUE,
                                                  !.Score = 0]]
        w2 == [w1 EXCEPT !.cl[player2] = [@ EXCEPT !.RoomID = roomID,
                                                   !.InQueue = FALSE,
                                                   !.IsAlive = TRUE,
                                                   !.Score = 0]]
        msg == GameStart(roomID, seed, ID(player1), w2.cl[player1].Name,
                         ID(player2), w2.cl[player2].Name)
    IN  SendJSON(SendJSON(w2, player1, msg), player2, msg)

\* Matchmaker.createMatch
createMatch(w, player1, player2, roomID, seed) ==
    LET w1 == [w EXCEPT !.cl[player1] = [@ EXCEPT !.RoomID = roomID,
                                                  !.InQueue = FALSE,
                                                  !.IsAlive = TRUE,
                                                  !.Score = 0]]
        w2 == [w1 EXCEPT !.cl[player2] = [@ EXCEPT !.RoomID = roomID,
                                                   !.InQueue = FALSE,
                                                   !.IsAlive = TRUE,
                                                   !.Score = 0]]
        w3 == SendJSON(w2, player1,
                       GameStart(roomID, seed, ID(player1), w2.cl[player1].Name,
                                 ID(player2), w2.cl[player2].Name))
    IN  SendJSON(w3, player2,
                 GameStart(roomID, seed, ID(player2), w3.cl[player2].Name,
                           ID(player1), w3.cl[player1].Name))

(***************************************************************************)
(* Actions.  A handler runs as one step: the steps of this specification   *)
(* are the runs in which handlers execute one after the other.             *)
(***************************************************************************)
\* What a step that handles no client message leaves of the latest handler.
NoHandler == last' = NoMessage /\ saved' = <<>> /\ logged' = <<>>

\* A step that sends nothing.
NoSend == sent' = [c \in Conn |-> <<>>]

\* What a handler leaves: the world it computed, and the message handled.
Handled(w, op, c) ==
    /\ clients' = w.cl
    /\ send' = w.sd
    /\ outbound' = w.buf
    /\ sent' = w.out
    /\ saved' = w.sv
    /\ logged' = w.errs
    /\ panicked' = w.pn
    /\ last' = [op |-> op, c |-> c, res |-> w.res]

Init ==
    /\ clients = [c \in Conn |-> NewClient]
    /\ send = [c \in Conn |-> 0]
    /\ sent = [c \in Conn |-> <<>>]
    /\ closed = {}
    /\ hubClients = [id \in {} |-> Nil]
    /\ hubPending = NoRequest
    /\ readLoop = [c \in Conn |-> "idle"]
    /\ queue = <<>>
    /\ waiting = Nil
    /\ nextRoom = 0
    /\ panicked = FALSE
    /\ saved = <<>>
    /\ logged = <<>>
    /\ last = NoMessage
    /\ arrivals = <<>>
    /\ sessions = <<>>
    /\ handler = [c \in Conn |-> Idle]
    /\ outbound = NotFollowed
    /\ ident = [c \in Conn |-> c]
    /\ game = NoGame
    /\ socket = NoSocket

\* ServeWs up to its read loop: NewClient and hub.Register, which returns
\* once the hub loop has received the request.
Connect(c, id) ==
    /\ ~panicked
    /\ readLoop[c] = "idle"
    /\ hubPending = NoRequest
    /\ readLoop' = [readLoop EXCEPT ![c] = "running"]
    /\ ident' = [ident EXCEPT ![c] = id]
    /\ hubPending' = [kind |-> "register", c |-> c]
    /\ NoHandler
    /\ NoSend
    /\ UNCHANGED <<handler, clients, send, outbound, closed, game, socket, hubClients, queue, waiting, nextRoom,
                   panicked, arrivals, sessions>>

\* A disconnect that leaves the game as LEAVE_GAME does before it unregisters.
DisconnectLeaves(c) ==
    /\ ~panicked
    /\ readLoop[c] = "running"
    /\ hubPending = NoRequest
    /\ readLoop' = [readLoop EXCEPT ![c] = "ended"]
    /\ ident' = ident
    /\ hubPending' = [kind |-> "unregister", c |-> c]
    /\ \E roomClients \in Orders(GetClientsInRoom(clients, clients[c].RoomID)) :
         /\ Handled(handleLeaveGame(World, c, roomClients), "none", Nil)
    /\ UNCHANGED <<handler, closed, game, socket, hubClients, queue, waiting, nextRoom,
                   arrivals, sessions>>

\* ServeWs after its read loop: hub.Unregister, handed to the hub loop.
Disconnect(c) ==
    /\ ~panicked
    /\ readLoop[c] = "running"
    /\ hubPending = NoRequest
    /\ readLoop' = [readLoop EXCEPT ![c] = "ended"]
    /\ ident' = ident
    /\ hubPending' = [kind |-> "unregister", c |-> c]
    /\ NoHandler
    /\ NoSend
    /\ UNCHANGED <<handler, clients, send, outbound, closed, game, socket, hubClients, queue, waiting, nextRoom,
                   panicked, arrivals, sessions>>

\* Hub.Run, case client := <-h.register
HubRegister ==
    /\ ~panicked
    /\ hubPending.kind = "register"
    /\ hubClients' = [id \in DOMAIN hubClients \cup {ident[hubPending.c]} |->
                         IF id = ident[hubPending.c] THEN hubPending.c
                         ELSE hubClients[id]]
    /\ hubPending' = NoRequest
    /\ NoHandler
    /\ NoSend
    /\ UNCHANGED <<handler, clients, send, outbound, closed, game, socket, readLoop, ident, queue, waiting, nextRoom,
                   panicked, arrivals, sessions>>

\* Hub.Run, case client := <-h.unregister
HubUnregister ==
    /\ ~panicked
    /\ hubPending.kind = "unregister"
    /\ IF ident[hubPending.c] \in DOMAIN hubClients
       THEN /\ hubClients' = [id \in DOMAIN hubClients \ {ident[hubPending.c]}
                                 |-> hubClients[id]]
            /\ closed' = closed \cup {hubPending.c}
            /\ panicked' = (hubPending.c \in closed)
       ELSE UNCHANGED <<hubClients, closed, panicked>>
    /\ hubPending' = NoRequest
    /\ NoHandler
    /\ NoSend
    /\ UNCHANGED <<game, socket, handler, clients, send, outbound, readLoop, ident, queue, waiting, nextRoom,
                   arrivals, sessions>>

\* Client.WritePump: one message taken from Send and written to the socket.
WritePump(c) ==
    /\ ~panicked
    /\ Pumping(outbound, c)
    /\ send[c] > 0
    /\ send' = [send EXCEPT ![c] = @ - 1]
    /\ outbound' = Written(outbound, c)
    /\ NoHandler
    /\ NoSend
    /\ UNCHANGED <<handler, clients, closed, game, socket, hubClients, hubPending, readLoop, ident, queue,
                   waiting, nextRoom, panicked, arrivals, sessions>>

\* case "JOIN_QUEUE" with client.Name = payload.Name and no fallback.
JoinQueueNoFallback(c, p) ==
    /\ ~panicked
    /\ readLoop[c] = "running"
    /\ Len(arrivals) + Len(queue) < MaxArrivals
    /\ IF ~clients[c].InQueue /\ clients[c].RoomID = NoRoom
       THEN /\ clients' = [clients EXCEPT ![c].Name = p.name,
                                          ![c].InQueue = TRUE]
            /\ queue' = Append(queue, c)
            /\ last' = [op |-> "JOIN_QUEUE", c |-> c, res |-> "queued"]
       ELSE /\ UNCHANGED <<clients, queue>>
            /\ last' = [op |-> "JOIN_QUEUE", c |-> c, res |-> "ignored"]
    /\ saved' = <<>>
    /\ logged' = <<>>
    /\ NoSend
    /\ UNCHANGED <<handler, send, outbound, closed, game, socket, hubClients, hubPending, readLoop, ident, waiting,
                   nextRoom, panicked, arrivals, sessions>>

\* handleMessage, case "JOIN_QUEUE"
JoinQueue(c, p) ==
    /\ ~panicked
    /\ readLoop[c] = "running"
    /\ Len(arrivals) + Len(queue) < MaxArrivals
    /\ IF ~clients[c].InQueue /\ clients[c].RoomID = NoRoom
       THEN /\ clients' = [clients EXCEPT
                             ![c].Name = IF p.ok /\ p.name # "" THEN p.name ELSE ID(c),
                             ![c].InQueue = TRUE]
            /\ queue' = Append(queue, c)
            /\ last' = [op |-> "JOIN_QUEUE", c |-> c, res |-> "queued"]
       ELSE /\ UNCHANGED <<clients, queue>>
            /\ last' = [op |-> "JOIN_QUEUE", c |-> c, res |-> "ignored"]
    /\ saved' = <<>>
    /\ logged' = <<>>
    /\ NoSend
    /\ UNCHANGED <<handler, send, outbound, closed, game, socket, hubClients, hubPending, readLoop, ident, waiting,
                   nextRoom, panicked, arrivals, sessions>>

\* Matchmaker.Run with the line "waiting = nil" left out after createMatch.
MatchmakerRunKeepsWaiting ==
    /\ ~panicked
    /\ queue # <<>>
    /\ queue' = Tail(queue)
    /\ arrivals' = Append(arrivals, Head(queue))
    /\ IF waiting = Nil
       THEN /\ waiting' = Head(queue)
            /\ NoSend
            /\ UNCHANGED <<clients, send, outbound, nextRoom, panicked, sessions>>
       ELSE \E seed \in Seeds :
              LET w == createMatch(World, waiting, Head(queue), nextRoom + 1, seed)
              IN  /\ clients' = w.cl
                  /\ send' = w.sd
                  /\ outbound' = w.buf
                  /\ sent' = w.out
                  /\ panicked' = w.pn
                  /\ nextRoom' = nextRoom + 1
                  /\ sessions' = Append(sessions, <<waiting, Head(queue)>>)
                  /\ waiting' = waiting
    /\ NoHandler
    /\ UNCHANGED <<handler, closed, game, socket, hubClients, hubPending, readLoop, ident>>

\* Matchmaker.Run: one iteration of the loop.
MatchmakerRun ==
    /\ ~panicked
    /\ queue # <<>>
    /\ queue' = Tail(queue)
    /\ arrivals' = Append(arrivals, Head(queue))
    /\ IF waiting = Nil
       THEN /\ waiting' = Head(queue)
            /\ NoSend
            /\ UNCHANGED <<clients, send, outbound, nextRoom, panicked, sessions>>
       ELSE \E seed \in Seeds :
              LET w == createMatch(World, waiting, Head(queue), nextRoom + 1, seed)
              IN  /\ clients' = w.cl
                  /\ send' = w.sd
                  /\ outbound' = w.buf
                  /\ sent' = w.out
                  /\ panicked' = w.pn
                  /\ nextRoom' = nextRoom + 1
                  /\ sessions' = Append(sessions, <<waiting, Head(queue)>>)
                  /\ waiting' = IF w.pn THEN waiting ELSE Nil
    /\ NoHandler
    /\ UNCHANGED <<handler, closed, game, socket, hubClients, hubPending, readLoop, ident>>

\* Client.WritePump when NextWriter or w.Close fails: the message taken
\* from Send is lost and WritePump returns.
WriteFails(c) ==
    /\ ~panicked
    /\ Followed(outbound)
    /\ Pumping(outbound, c)
    /\ send[c] > 0
    /\ send' = [send EXCEPT ![c] = @ - 1]
    /\ outbound' = [outbound EXCEPT ![c].buffer = Tail(@),
                                    ![c].pump = "stopped"]
    /\ NoHandler
    /\ NoSend
    /\ UNCHANGED <<handler, clients, closed, game, socket, hubClients, hubPending, readLoop, ident, queue,
                   waiting, nextRoom, panicked, arrivals, sessions>>

\* A parse error of the envelope taken for a read error: the loop ends.
BadEnvelopeBreaks(c) ==
    /\ ~panicked
    /\ readLoop[c] = "running"
    /\ hubPending = NoRequest
    /\ readLoop' = [readLoop EXCEPT ![c] = "ended"]
    /\ hubPending' = [kind |-> "unregister", c |-> c]
    /\ last' = [op |-> "unparsed", c |-> c, res |-> "parse_error"]
    /\ saved' = <<>>
    /\ logged' = <<>>
    /\ NoSend
    /\ UNCHANGED <<handler, clients, send, outbound, closed, game, socket, hubClients, ident,
                   queue, waiting, nextRoom, panicked, arrivals, sessions>>

\* The read loop of ServeWs when json.Unmarshal of the message fails:
\* the error is logged and the loop continues with the next message.
BadEnvelope(c) ==
    /\ ~panicked
    /\ readLoop[c] = "running"
    /\ last' = [op |-> "unparsed", c |-> c, res |-> "parse_error"]
    /\ saved' = <<>>
    /\ logged' = <<>>
    /\ NoSend
    /\ UNCHANGED <<handler, clients, send, outbound, closed, game, socket, hubClients, hubPending,
                   readLoop, ident, queue, waiting, nextRoom, panicked, arrivals,
                   sessions>>

\* handleMessage, case "UPDATE_SCORE"
UpdateScore(c, p) ==
    /\ ~panicked
    /\ readLoop[c] = "running"
    /\ \E roomClients \in Orders(GetClientsInRoom(clients, clients[c].RoomID)) :
         Handled(handleUpdateScore(World, c, p, roomClients),
                 "UPDATE_SCORE", c)
    /\ UNCHANGED <<handler, closed, game, socket, hubClients, hubPending, readLoop, ident, queue, waiting,
                   nextRoom, arrivals, sessions>>

\* handleMessage, case "PLAYER_DIED", while the SaveScore calls for the
\* connections of fail return an error.
PlayerDiedSave(c, p, fail) ==
    /\ ~panicked
    /\ readLoop[c] = "running"
    /\ \E notified, roomClients \in
            Orders(GetClientsInRoom(clients, clients[c].RoomID)) :
         Handled(handlePlayerDied(WorldWhen(fail), c, p, notified, roomClients),
                 "PLAYER_DIED", c)
    /\ UNCHANGED <<handler, closed, game, socket, hubClients, hubPending, readLoop, ident, queue, waiting,
                   nextRoom, arrivals, sessions>>

\* handleMessage, case "LEAVE_GAME", while the SaveScore calls for the
\* connections of fail return an error.
LeaveGameSave(c, fail) ==
    /\ ~panicked
    /\ readLoop[c] = "running"
    /\ \E roomClients \in Orders(GetClientsInRoom(clients, clients[c].RoomID)) :
         Handled(handleLeaveGame(WorldWhen(fail), c, roomClients),
                 "LEAVE_GAME", c)
    /\ UNCHANGED <<handler, closed, game, socket, hubClients, hubPending, readLoop, ident, queue, waiting,
                   nextRoom, arrivals, sessions>>

\* handleMessage, case "PLAYER_DIED"
PlayerDied(c, p) ==
    /\ ~panicked
    /\ readLoop[c] = "running"
    /\ \E notified, roomClients \in
            Orders(GetClientsInRoom(clients, clients[c].RoomID)) :
         Handled(handlePlayerDied(World, c, p, notified, roomClients),
                 "PLAYER_DIED", c)
    /\ UNCHANGED <<handler, closed, game, socket, hubClients, hubPending, readLoop, ident, queue, waiting,
                   nextRoom, arrivals, sessions>>

\* handleMessage, case "LEAVE_GAME"
LeaveGame(c) ==
    /\ ~panicked
    /\ readLoop[c] = "running"
    /\ \E roomClients \in Orders(GetClientsInRoom(clients, clients[c].RoomID)) :
         Handled(handleLeaveGame(World, c, roomClients), "LEAVE_GAME", c)
    /\ UNCHANGED <<handler, closed, game, socket, hubClients, hubPending, readLoop, ident, queue, waiting,
                   nextRoom, arrivals, sessions>>

(***************************************************************************)
(* The whole server.                                                       *)
(***************************************************************************)
Next ==
    \/ \E c \in Conn, id \in Conn : Connect(c, id)
    \/ \E c \in Conn : Disconnect(c)
    \/ HubRegister
    \/ HubUnregister
    \/ \E c \in Conn : WritePump(c)
    \/ \E c \in Conn, p \in JoinPayloads : JoinQueue(c, p)
    \/ MatchmakerRun
    \/ \E c \in Conn, p \in ScorePayloads : UpdateScore(c, p)
    \/ \E c \in Conn, p \in ScorePayloads : PlayerDied(c, p)
    \/ \E c \in Conn : LeaveGame(c)

Spec == Init /\ [][Next]_vars

(***************************************************************************)
(* Matchmaking: connections join the queue, are paired by the matchmaker   *)
(* loop, leave their game and disconnect.  No score is reported, and every *)
(* JOIN_QUEUE carries an empty name: the name plays no part in pairing.    *)
(***************************************************************************)
\* Every connection has been accepted and registered; none has sent a message.
InitMatch ==
    /\ clients = [c \in Conn |-> NewClient]
    /\ send = [c \in Conn |-> 0]
    /\ sent = [c \in Conn |-> <<>>]
    /\ closed = {}
    /\ hubClients = [id \in Conn |-> id]
    /\ hubPending = NoRequest
    /\ readLoop = [c \in Conn |-> "running"]
    /\ queue = <<>>
    /\ waiting = Nil
    /\ nextRoom = 0
    /\ panicked = FALSE
    /\ saved = <<>>
    /\ logged = <<>>
    /\ last = NoMessage
    /\ arrivals = <<>>
    /\ sessions = <<>>
    /\ handler = [c \in Conn |-> Idle]
    /\ outbound = NotFollowed
    /\ ident = [c \in Conn |-> c]
    /\ game = NoGame
    /\ socket = NoSocket

NextMatch ==
    \/ \E c \in Conn : Disconnect(c)
    \/ HubUnregister
    \/ \E c \in Conn : WritePump(c)
    \/ \E c \in Conn : JoinQueue(c, [ok |-> TRUE, name |-> ""])
    \/ MatchmakerRun
    \/ \E c \in Conn : LeaveGame(c)

SpecMatch == InitMatch /\ [][NextMatch]_vars

\* Matchmaking with every JOIN_QUEUE payload: a name, no name, or a payload
\* that cannot be parsed.
NextQueue ==
    \/ \E c \in Conn, p \in JoinPayloads : JoinQueue(c, p)
    \/ MatchmakerRun
    \/ \E c \in Conn : LeaveGame(c)

SpecQueue == InitMatch /\ [][NextQueue]_vars

(***************************************************************************)
(* A game: the server once "c1" and "c2", queued in that order, have been  *)
(* paired into room 1 and have been sent GAME_START; "c3" has not          *)
(* connected.                                                              *)
(***************************************************************************)
InitGame ==
    /\ clients = [c \in Conn |->
                    IF c = "c3" THEN NewClient
                    ELSE [Name |-> c, RoomID |-> 1, InQueue |-> FALSE,
                          Score |-> 0, IsAlive |-> TRUE]]
    /\ send = [c \in Conn |-> 0]
    /\ sent = [c \in Conn |-> <<>>]
    /\ closed = {}
    /\ hubClients = [id \in Conn \ {"c3"} |-> id]
    /\ hubPending = NoRequest
    /\ readLoop = [c \in Conn |-> IF c = "c3" THEN "idle" ELSE "running"]
    /\ queue = <<>>
    /\ waiting = Nil
    /\ nextRoom = 1
    /\ panicked = FALSE
    /\ saved = <<>>
    /\ logged = <<>>
    /\ last = NoMessage
    /\ arrivals = <<"c1", "c2">>
    /\ sessions = << <<"c1", "c2">> >>
    /\ handler = [c \in Conn |-> Idle]
    /\ outbound = NotFollowed
    /\ ident = [c \in Conn |-> c]
    /\ game = NoGame
    /\ socket = NoSocket

NextGame ==
    \/ \E c \in Conn : Disconnect(c)
    \/ HubUnregister
    \/ \E c \in Conn : WritePump(c)
    \/ \E c \in Conn, p \in ScorePayloads : UpdateScore(c, p)
    \/ \E c \in Conn, p \in ScorePayloads : PlayerDied(c, p)
    \/ \E c \in Conn : LeaveGame(c)

SpecGame == InitGame /\ [][NextGame]_vars

(***************************************************************************)
(* Two PLAYER_DIED handlers at once.  ServeWs runs handleMessage on the    *)
(* goroutine of its connection and takes no lock around it, so the         *)
(* handlers of two connections interleave statement by statement.  Here    *)
(* case "PLAYER_DIED" is cut into its statements and loop iterations;      *)
(* handler[c] holds the position of c's handler and its local variables    *)
(* payload.Score, roomClients, the loop index, winner and isDraw: "done"   *)
(* is a handler that returned, "dropped" one that could not parse its      *)
(* payload.  The steps of one                                              *)
(* handler append to sent and saved, which here hold what was sent and     *)
(* saved since the game began.                                             *)
(***************************************************************************)
\* The next iteration of a loop over roomClients, or the statement after it.
Advance(h, after) ==
    IF h.i < Len(h.roomClients) THEN [h EXCEPT !.i = @ + 1]
    ELSE [h EXCEPT !.pc = after, !.i = 1]

\* What the steps of a handler leave alone.
HandlerFrame ==
    UNCHANGED <<closed, game, socket, hubClients, hubPending, readLoop, ident, queue, waiting,
                nextRoom, last, arrivals, sessions>>

\* json.Unmarshal of the payload; client.Score = payload.Score
DiedSetScore(c, p) ==
    /\ ~panicked
    /\ readLoop[c] = "running"
    /\ handler[c].pc = "idle"
    /\ IF p.ok
       THEN /\ clients' = [clients EXCEPT ![c].Score = p.score]
            /\ handler' = [handler EXCEPT ![c].pc = "setAlive",
                                          ![c].payload = p.score]
       ELSE /\ handler' = [handler EXCEPT ![c].pc = "dropped"]
            /\ UNCHANGED clients
    /\ UNCHANGED <<send, outbound, sent, saved, logged, panicked>>
    /\ HandlerFrame

\* client.IsAlive = false
DiedSetAlive(c) ==
    /\ ~panicked
    /\ handler[c].pc = "setAlive"
    /\ clients' = [clients EXCEPT ![c].IsAlive = FALSE]
    /\ handler' = [handler EXCEPT ![c].pc = "notify"]
    /\ UNCHANGED <<send, outbound, sent, saved, logged, panicked>>
    /\ HandlerFrame

\* notifyOpponent(client, "OPPONENT_UPDATE", {client.Score, false})
DiedNotify(c) ==
    /\ ~panicked
    /\ handler[c].pc = "notify"
    /\ \E notified \in Orders(GetClientsInRoom(clients, clients[c].RoomID)) :
         LET w == notifyOpponent(World, c, notified,
                                 OpponentUpdate(clients[c].Score, FALSE))
         IN  /\ send' = w.sd
             /\ outbound' = w.buf
             /\ sent' = [x \in Conn |-> sent[x] \o w.out[x]]
             /\ panicked' = w.pn
    /\ handler' = [handler EXCEPT ![c].pc = "getRoom"]
    /\ UNCHANGED <<clients, saved, logged>>
    /\ HandlerFrame

\* roomClients := hub.GetClientsInRoom(client.RoomID)
DiedGetRoom(c) ==
    /\ ~panicked
    /\ handler[c].pc = "getRoom"
    /\ \E roomClients \in Orders(GetClientsInRoom(clients, clients[c].RoomID)) :
         handler' = [handler EXCEPT ![c] =
                       [@ EXCEPT !.pc = IF roomClients = <<>> THEN "done"
                                        ELSE "checkAlive",
                                 !.roomClients = roomClients,
                                 !.i = 1]]
    /\ UNCHANGED <<clients, send, outbound, sent, saved, logged, panicked>>
    /\ HandlerFrame

\* for _, c := range roomClients { if c.IsAlive { allDead = false; break } }
DiedCheckAlive(c) ==
    /\ ~panicked
    /\ handler[c].pc = "checkAlive"
    /\ handler' = [handler EXCEPT ![c] =
                     IF clients[@.roomClients[@.i]].IsAlive
                     THEN [@ EXCEPT !.pc = "done"]
                     ELSE Advance(@, "winner")]
    /\ UNCHANGED <<clients, send, outbound, sent, saved, logged, panicked>>
    /\ HandlerFrame

\* One iteration of the loop "Determine winner by highest score".
DiedWinner(c) ==
    /\ ~panicked
    /\ handler[c].pc = "winner"
    /\ handler' = [handler EXCEPT ![c] =
                     Advance([@ EXCEPT !.result =
                                WinnerStep(clients, @, handler[c].roomClients[handler[c].i])],
                             "gameOver")]
    /\ UNCHANGED <<clients, send, outbound, sent, saved, logged, panicked>>
    /\ HandlerFrame

\* One iteration of the loop "Notify all players that the game is over".
DiedGameOver(c) ==
    /\ ~panicked
    /\ handler[c].pc = "gameOver"
    /\ LET h == handler[c]
           w == SendJSON(World, h.roomClients[h.i], GameOverOf(h.result))
       IN  /\ send' = w.sd
           /\ outbound' = w.buf
           /\ sent' = [x \in Conn |-> sent[x] \o w.out[x]]
           /\ panicked' = w.pn
    /\ handler' = [handler EXCEPT ![c] = Advance(@, "persist")]
    /\ UNCHANGED <<clients, saved, logged>>
    /\ HandlerFrame

\* One iteration of the loop "Persist scores to leaderboard".
DiedPersist(c) ==
    /\ ~panicked
    /\ handler[c].pc = "persist"
    /\ saved' = Append(saved, SaveScore(clients, handler[c].roomClients[handler[c].i]))
    /\ logged' = logged
    /\ handler' = [handler EXCEPT ![c] = Advance(@, "cleanUp")]
    /\ UNCHANGED <<clients, send, outbound, sent, panicked>>
    /\ HandlerFrame

\* One iteration of the loop "Clean up room".
DiedCleanUp(c) ==
    /\ ~panicked
    /\ handler[c].pc = "cleanUp"
    /\ clients' = [clients EXCEPT ![handler[c].roomClients[handler[c].i]] = CleanUp(@)]
    /\ handler' = [handler EXCEPT ![c] = Advance(@, "done")]
    /\ UNCHANGED <<send, outbound, sent, saved, logged, panicked>>
    /\ HandlerFrame

NextDied ==
    \/ \E c \in Conn, p \in ScorePayloads : DiedSetScore(c, p)
    \/ \E c \in Conn : DiedSetAlive(c)
    \/ \E c \in Conn : DiedNotify(c)
    \/ \E c \in Conn : DiedGetRoom(c)
    \/ \E c \in Conn : DiedCheckAlive(c)
    \/ \E c \in Conn : DiedWinner(c)
    \/ \E c \in Conn : DiedGameOver(c)
    \/ \E c \in Conn : DiedPersist(c)
    \/ \E c \in Conn : DiedCleanUp(c)

\* Each of the two participants of room 1 sends one PLAYER_DIED.
SpecDied == InitGame /\ [][NextDied]_vars

(***************************************************************************)
(* JOIN_QUEUE against the matchmaker loop.  The matchmaker runs on its own *)
(* goroutine and the handler takes no lock, so the loop may dequeue a      *)
(* connection and create its match between the statements of the handler   *)
(* that enqueued it.  Here case "JOIN_QUEUE" is cut at those statements.   *)
(***************************************************************************)
\* if !client.InQueue && client.RoomID == "" { ...; client.Name = ... }
JoinSetName(c, p) ==
    /\ ~panicked
    /\ readLoop[c] = "running"
    /\ handler[c].pc = "idle"
    /\ Len(arrivals) + Len(queue) < MaxArrivals
    /\ ~clients[c].InQueue
    /\ clients[c].RoomID = NoRoom
    /\ clients' = [clients EXCEPT
                     ![c].Name = IF p.ok /\ p.name # "" THEN p.name ELSE ID(c)]
    /\ handler' = [handler EXCEPT ![c].pc = "addToQueue"]
    /\ last' = [op |-> "JOIN_QUEUE", c |-> c, res |-> "queued"]
    /\ saved' = <<>>
    /\ logged' = <<>>
    /\ NoSend
    /\ UNCHANGED <<send, outbound, closed, game, socket, hubClients, hubPending, readLoop, ident, queue,
                   waiting, nextRoom, panicked, arrivals, sessions>>

\* matchmaker.AddToQueue(client)
JoinAddToQueue(c) ==
    /\ ~panicked
    /\ handler[c].pc = "addToQueue"
    /\ queue' = Append(queue, c)
    /\ handler' = [handler EXCEPT ![c].pc = "setInQueue"]
    /\ UNCHANGED <<clients, send, outbound, sent, closed, game, socket, hubClients, hubPending,
                   readLoop, ident, waiting, nextRoom, panicked, saved, logged, last,
                   arrivals, sessions>>

\* The handler returning without client.InQueue = true.
JoinLeavesInQueue(c) ==
    /\ ~panicked
    /\ handler[c].pc = "setInQueue"
    /\ handler' = [handler EXCEPT ![c].pc = "idle"]
    /\ UNCHANGED <<clients, send, outbound, sent, closed, game, socket, hubClients, hubPending,
                   readLoop, ident, queue, waiting, nextRoom, panicked, saved, logged, last,
                   arrivals, sessions>>

\* client.InQueue = true
JoinSetInQueue(c) ==
    /\ ~panicked
    /\ handler[c].pc = "setInQueue"
    /\ clients' = [clients EXCEPT ![c].InQueue = TRUE]
    /\ handler' = [handler EXCEPT ![c].pc = "idle"]
    /\ UNCHANGED <<send, outbound, sent, closed, game, socket, hubClients, hubPending, readLoop, ident,
                   queue, waiting, nextRoom, panicked, saved, logged, last, arrivals,
                   sessions>>

\* The handlers of a connection run one after the other on its goroutine.
BetweenMessages(c) == handler[c].pc = "idle"

NextJoin ==
    \/ \E c \in Conn, p \in JoinPayloads : JoinSetName(c, p)
    \/ \E c \in Conn : JoinAddToQueue(c)
    \/ \E c \in Conn : JoinSetInQueue(c)
    \/ MatchmakerRun
    \/ \E c \in Conn : WritePump(c)

\* Connections join while the matchmaker loop runs.
SpecJoin == InitMatch /\ [][NextJoin]_vars

NextRejoin ==
    \/ \E c \in Conn : JoinSetName(c, [ok |-> TRUE, name |-> ""])
    \/ \E c \in Conn : JoinAddToQueue(c)
    \/ \E c \in Conn : JoinSetInQueue(c)
    \/ MatchmakerRun
    \/ \E c \in Conn : BetweenMessages(c) /\ PlayerDied(c, [ok |-> TRUE, score |-> 0])
    \/ \E c \in Conn : BetweenMessages(c) /\ LeaveGame(c)

\* The participants of room 1 die or leave, join again and are matched again.
SpecRejoin == InitGame /\ [][NextRejoin]_vars

(***************************************************************************)
(* Properties.                                                             *)
(***************************************************************************)
\* The two participants of room 1.
Participants == {sessions[1][1], sessions[1][2]}

\* The GAME_OVER messages among msgs.
GameOvers(msgs) == SelectSeq(msgs, LAMBDA m : m.type = "GAME_OVER")

\* Both participants' PLAYER_DIED handlers have returned.
BothDied == \A c \in Participants : handler[c].pc = "done"

\* The WinnerID the scores s1 of c1 and s2 of c2 call for.
WinnerBy(c1, s1, c2, s2) ==
    IF s1 > s2 THEN c1 ELSE IF s2 > s1 THEN c2 ELSE NoWinner

\* C1: of the N connections the matchmaker loop has dequeued, it has made
\* floor(N/2) sessions, the k-th of arrivals 2k-1 and 2k, and its waiting
\* slot is occupied exactly when N is odd, and then by arrival N.
C1_FifoPairing ==
    LET N == Len(arrivals)
    IN  /\ Len(sessions) = N \div 2
        /\ \A k \in 1 .. Len(sessions) :
             sessions[k] = <<arrivals[2 * k - 1], arrivals[2 * k]>>
        /\ ~panicked =>
             /\ waiting # Nil <=> N % 2 = 1
             /\ waiting # Nil => waiting = arrivals[N]

\* Three connections were dequeued: one session, and the third waits.
C1_Witness ==
    /\ ~panicked
    /\ Len(arrivals) = 3
    /\ Len(sessions) = 1
    /\ waiting = arrivals[3]

\* C2: once both participants of a room have sent PLAYER_DIED and both
\* handlers have returned, each participant has been sent exactly one
\* GAME_OVER, whatever the interleaving of the two handlers.
C2_ExactlyOneGameOver ==
    BothDied => \A c \in Participants : Len(GameOvers(sent[c])) = 1

\* C3: every GAME_OVER sent to a participant names the winner that the two
\* scores reported at death call for, and all of them give the same reason,
\* whatever the interleaving of the two handlers.
C3_AgreedOutcome ==
    \A c, d \in Participants :
      \A i \in 1 .. Len(GameOvers(sent[c])), j \in 1 .. Len(GameOvers(sent[d])) :
        LET m == GameOvers(sent[c])[i]
            n == GameOvers(sent[d])[j]
        IN  /\ m.payload.reason = n.payload.reason
            /\ m.payload.winnerId =
                 WinnerBy("c1", handler["c1"].payload, "c2", handler["c2"].payload)

\* c is in a room.
InRoom(c) == clients[c].RoomID # NoRoom

\* The registered clients other than c that have c's room identifier.
Peers(c) == GetClientsInRoom(clients, clients[c].RoomID) \ {c}

\* The fill of d's Send buffer after one more SendJSON.
Fill(d) == IF send[d] < SendCap THEN send[d] + 1 ELSE send[d]

\* C4: when a PLAYER_DIED is handled while the other participant of the
\* room is registered and already dead, both are sent one GAME_OVER whose
\* winnerId is the participant with the strictly higher score, and "" when
\* the scores are equal, in whatever order the registry lists the two.
C4_WinnerByScore ==
    [][\A c \in Conn : InRoom(c) =>
         \A d \in Peers(c) : (Peers(c) = {d} /\ ~clients[d].IsAlive) =>
           \A p \in ScorePayloads : (p.ok /\ PlayerDied(c, p)) =>
             \A x \in {c, d} :
               /\ Len(GameOvers(sent'[x])) = 1
               /\ GameOvers(sent'[x])[1].payload.winnerId =
                    WinnerBy(c, p.score, d, clients[d].Score)]_vars

\* A room was resolved with a winner, and the loser was told.
C4_Witness ==
    /\ last = [op |-> "PLAYER_DIED", c |-> "c1", res |-> "game_over"]
    /\ GameOvers(sent["c1"]) = <<GameOver("c2", "all_players_died")>>
    /\ GameOvers(sent["c2"]) = <<GameOver("c2", "all_players_died")>>

\* No message was passed to SendJSON in the step, for any connection.
NothingSent == \A x \in Conn : sent'[x] = <<>>

\* C5: for a connection in a room whose stored score is S, an UPDATE_SCORE
\* reporting more than S + 50 leaves the stored score at S, and every
\* registered client of the room with space in its buffer is sent one
\* OPPONENT_UPDATE with S and the sender's alive flag; a report of at most
\* S + 50 is not rejected.
C5_RejectAboveBound ==
    [][\A c \in Conn : InRoom(c) =>
         \A p \in ScorePayloads : (p.ok /\ UpdateScore(c, p)) =>
           LET S == clients[c].Score
           IN  /\ p.score > S + MaxDelta =>
                    /\ clients'[c].Score = S
                    /\ \A d \in Peers(c) : send[d] < SendCap =>
                         /\ sent'[d] = <<OpponentUpdate(S, clients[c].IsAlive)>>
                         /\ send'[d] = send[d] + 1
               /\ p.score <= S + MaxDelta => last'.res # "rejected"]_vars

\* C6 as amended: an UPDATE_SCORE of a connection in a room that passes the
\* validation stores the reported score and changes no other field of any
\* client; each registered client of the room other than the sender is
\* passed one OPPONENT_UPDATE with the reported score and the sender's
\* alive flag, which is buffered unless that client's buffer is full, and
\* nothing is sent to anybody else.
C6_AcceptedUpdate ==
    [][\A c \in Conn : InRoom(c) =>
         \A p \in ScorePayloads :
           (p.ok /\ UpdateScore(c, p) /\ last'.res = "accepted") =>
             /\ clients' = [clients EXCEPT ![c].Score = p.score]
             /\ \A d \in Peers(c) :
                  /\ sent'[d] = <<OpponentUpdate(p.score, clients[c].IsAlive)>>
                  /\ send'[d] = Fill(d)
             /\ \A x \in Conn \ Peers(c) :
                  sent'[x] = <<>> /\ send'[x] = send[x]]_vars

\* C6 as stated: the OPPONENT_UPDATE of an accepted UPDATE_SCORE is
\* enqueued to the opponent, whatever the fill of the opponent's buffer.
C6_AlwaysEnqueued ==
    [][\A c \in Conn : InRoom(c) =>
         \A p \in ScorePayloads :
           (p.ok /\ UpdateScore(c, p) /\ last'.res = "accepted") =>
             /\ clients' = [clients EXCEPT ![c].Score = p.score]
             /\ sent'[c] = <<>>
             /\ \A d \in Peers(c) : send'[d] = send[d] + 1]_vars

\* An accepted UPDATE_SCORE of 50 by "c1" reached the buffer of "c2".
C6_Witness ==
    /\ last = [op |-> "UPDATE_SCORE", c |-> "c1", res |-> "accepted"]
    /\ clients["c1"].RoomID = 1
    /\ clients["c1"].Score = MaxDelta
    /\ sent["c2"] = <<OpponentUpdate(MaxDelta, TRUE)>>
    /\ send["c2"] > 0

\* C7: an UPDATE_SCORE of a connection in no room changes no client and
\* sends nothing.
C7_RoomlessUpdateIgnored ==
    [][\A c \in Conn : ~InRoom(c) =>
         \A p \in ScorePayloads : UpdateScore(c, p) =>
           /\ clients' = clients
           /\ send' = send
           /\ NothingSent]_vars

\* C8: a PLAYER_DIED of a connection in no room changes no client, sends
\* nothing and saves no score.
C8_RoomlessDeathIgnored ==
    [][\A c \in Conn : ~InRoom(c) =>
         \A p \in ScorePayloads : PlayerDied(c, p) =>
           /\ clients' = clients
           /\ send' = send
           /\ NothingSent
           /\ saved' = <<>>]_vars

C10_SavedOnceAndReset ==
    BothDied =>
      /\ \A c \in Participants :
           /\ Cardinality({i \in 1 .. Len(saved) : saved[i].id = c}) = 1
           /\ \A i \in 1 .. Len(saved) :
                saved[i].id = c => saved[i].score = handler[c].payload
           /\ clients[c].RoomID = NoRoom
           /\ clients[c].IsAlive
           /\ clients[c].Score = 0

\* C11: once the matchmaker has created a session and the JOIN_QUEUE
\* handlers of its two connections have returned, both connections hold the
\* session's room identifier, are alive, have score 0 and are not in-queue.
C11_MatchedFlags ==
    \A k \in 1 .. Len(sessions) :
      (BetweenMessages(sessions[k][1]) /\ BetweenMessages(sessions[k][2])
         /\ ~panicked)
      => \A c \in {sessions[k][1], sessions[k][2]} :
           /\ clients[c].RoomID = k
           /\ clients[c].IsAlive
           /\ clients[c].Score = 0
           /\ ~clients[c].InQueue

\* C12: the two GAME_START messages of a pairing carry the same roomId and
\* the same seed; each names its recipient as myId and myName and the other
\* participant as opponentId and opponentName.
C12_GameStartPair ==
    [][(Len(sessions') = Len(sessions) + 1 /\ ~panicked') =>
         LET a == sessions'[Len(sessions')][1]
             b == sessions'[Len(sessions')][2]
         IN  \E seed \in Seeds :
               /\ sent'[a] = <<GameStart(nextRoom', seed, a, clients'[a].Name,
                                         b, clients'[b].Name)>>
               /\ sent'[b] = <<GameStart(nextRoom', seed, b, clients'[b].Name,
                                         a, clients'[a].Name)>>]_vars

\* "c1", who joined as "ann", and "c2", who gave no name, were paired.
C12_Witness ==
    /\ sent["c1"] = <<GameStart(1, 7, "c1", "ann", "c2", "c2")>>
    /\ sent["c2"] = <<GameStart(1, 7, "c2", "c2", "c1", "ann")>>

\* C13: when a PLAYER_DIED resolves a room, every participant is left with
\* an empty room identifier and in-queue false, so that its next JOIN_QUEUE
\* is accepted.
C13_FreeAfterResolution ==
    [][\A c \in Conn : (InRoom(c) /\ BetweenMessages(c)) =>
         \A p \in ScorePayloads :
           (p.ok /\ PlayerDied(c, p) /\ last'.res = "game_over") =>
             \A d \in GetClientsInRoom(clients, clients[c].RoomID) :
               /\ clients'[d].RoomID = NoRoom
               /\ ~clients'[d].InQueue]_vars

\* C14 as amended: a LEAVE_GAME of a connection in a room calls SaveScore
\* once, with the leaver's score; passes one OPPONENT_LEFT with that score
\* and isAlive false to each registered client of the room other than the
\* leaver, buffered unless that client's buffer is full; resets the leaver's
\* room identifier, alive flag, score and in-queue flag; and changes no
\* other client.
C14_LeaveInRoom ==
    [][\A c \in Conn : (InRoom(c) /\ LeaveGame(c)) =>
         /\ saved' = <<[id |-> c, name |-> clients[c].Name,
                        score |-> clients[c].Score]>>
         /\ clients' = [clients EXCEPT ![c] =
                          [@ EXCEPT !.RoomID = NoRoom, !.IsAlive = TRUE,
                                    !.Score = 0, !.InQueue = FALSE]]
         /\ \A d \in Peers(c) :
              /\ sent'[d] = <<OpponentLeft(clients[c].Score)>>
              /\ send'[d] = Fill(d)
         /\ \A x \in Conn \ Peers(c) :
              sent'[x] = <<>> /\ send'[x] = send[x]]_vars

\* C14 as stated: the OPPONENT_LEFT is enqueued to the opponent, whatever
\* the fill of the opponent's buffer.
C14_AlwaysEnqueued ==
    [][\A c \in Conn : (InRoom(c) /\ LeaveGame(c)) =>
         /\ Len(saved') = 1
         /\ clients'[c] = [clients[c] EXCEPT !.RoomID = NoRoom,
                                             !.IsAlive = TRUE,
                                             !.Score = 0, !.InQueue = FALSE]
         /\ \A d \in Peers(c) :
              /\ clients'[d] = clients[d]
              /\ send'[d] = send[d] + 1]_vars

\* "c1" left room 1 with score 50, and "c2" was told.
C14_Witness ==
    /\ last = [op |-> "LEAVE_GAME", c |-> "c1", res |-> "left"]
    /\ saved = <<[id |-> "c1", name |-> "c1", score |-> MaxDelta]>>
    /\ sent["c2"] = <<OpponentLeft(MaxDelta)>>
    /\ send["c2"] > 0
    /\ clients["c1"].RoomID = NoRoom
    /\ clients["c2"].RoomID = 1

\* C15: a LEAVE_GAME of a connection in no room changes no client, saves
\* no score and sends nothing; so a LEAVE_GAME that follows a LEAVE_GAME of
\* the same connection changes nothing.
C15_LeaveNoRoom ==
    [][\A c \in Conn : LeaveGame(c) =>
         /\ ~InRoom(c) =>
              /\ clients' = clients
              /\ send' = send
              /\ NothingSent
              /\ saved' = <<>>
         /\ (last.op = "LEAVE_GAME" /\ last.c = c) =>
              /\ clients' = clients
              /\ send' = send
              /\ saved' = <<>>]_vars

\* "c1" left room 1 and then sent LEAVE_GAME again.
C15_Witness ==
    /\ last = [op |-> "LEAVE_GAME", c |-> "c1", res |-> "not_in_game"]
    /\ clients["c1"].RoomID = NoRoom
    /\ clients["c2"].RoomID = 1
    /\ saved = <<>>

\* C16: between handlers, every room identifier held by a registered
\* connection is held by a connection whose alive flag is true.
C16_ActiveRoomHasAlive ==
    \A c \in Registered : InRoom(c) =>
      \E d \in Conn : clients[d].RoomID = clients[c].RoomID /\ clients[d].IsAlive

\* C17: a JOIN_QUEUE of a connection that is neither in-queue nor in a room
\* sets its name to the payload's name, or to its identifier when the name
\* is empty or the payload cannot be parsed, appends it once to the
\* matchmaker's queue and marks it in-queue; any other JOIN_QUEUE changes
\* no client and leaves the queue as it is.
C17_JoinAccepted ==
    [][\A c \in Conn, p \in JoinPayloads : JoinQueue(c, p) =>
         IF ~clients[c].InQueue /\ ~InRoom(c)
         THEN /\ clients' = [clients EXCEPT ![c] =
                   [@ EXCEPT !.Name = IF p.ok /\ p.name # "" THEN p.name ELSE c,
                             !.InQueue = TRUE]]
              /\ queue' = queue \o <<c>>
         ELSE /\ clients' = clients
              /\ queue' = queue]_vars

\* "c1" joined with a payload that gave no name and is queued as "c1".
C17_Witness ==
    /\ last = [op |-> "JOIN_QUEUE", c |-> "c1", res |-> "queued"]
    /\ clients["c1"].Name = "c1"
    /\ clients["c1"].InQueue
    /\ queue # <<>>
    /\ queue[Len(queue)] = "c1"

\* The matchmaker's pending buffer followed by its waiting slot.
Pending == IF waiting = Nil THEN queue ELSE queue \o <<waiting>>

Holders(cl, r) == {c \in Conn : cl[c].RoomID = r}

C20_ReasonAndWinner ==
    \A c \in Conn : \A i \in 1 .. Len(GameOvers(sent[c])) :
      LET m == GameOvers(sent[c])[i].payload
      IN  \/ m.reason = "draw" /\ m.winnerId = NoWinner
          \/ m.reason = "all_players_died" /\ m.winnerId \in Conn

\* C20 as stated: the reason of every GAME_OVER is "all_players_died" or
\* "disconnect".
C20_ReasonOfSpec ==
    \A c \in Conn : \A i \in 1 .. Len(GameOvers(sent[c])) :
      GameOvers(sent[c])[i].payload.reason \in {"all_players_died", "disconnect"}

\* Both participants of room 1 died with the same score.
C20_Witness ==
    /\ last.res = "game_over"
    /\ GameOvers(sent["c1"]) = <<GameOver(NoWinner, "draw")>>
    /\ GameOvers(sent["c2"]) = <<GameOver(NoWinner, "draw")>>

(***************************************************************************)
(* The way out, message by message: the game of InitGame with the          *)
(* contents of the Send channels followed.  Traffic counts the messages    *)
(* that entered a channel; handlers run while it is below MaxTraffic.      *)
(***************************************************************************)
RECURSIVE SumLen(_, _)
SumLen(ob, S) ==
    IF S = {} THEN 0
    ELSE LET c == CHOOSE x \in S : TRUE
         IN  Len(ob[c].accepted) + SumLen(ob, S \ {c})

Traffic == SumLen(outbound, Conn)

InitSend ==
    /\ clients = [c \in Conn |->
                    IF c = "c3" THEN NewClient
                    ELSE [Name |-> c, RoomID |-> 1, InQueue |-> FALSE,
                          Score |-> 0, IsAlive |-> TRUE]]
    /\ send = [c \in Conn |-> 0]
    /\ sent = [c \in Conn |-> <<>>]
    /\ closed = {}
    /\ hubClients = [id \in Conn \ {"c3"} |-> id]
    /\ hubPending = NoRequest
    /\ readLoop = [c \in Conn |-> IF c = "c3" THEN "idle" ELSE "running"]
    /\ queue = <<>>
    /\ waiting = Nil
    /\ nextRoom = 1
    /\ panicked = FALSE
    /\ saved = <<>>
    /\ logged = <<>>
    /\ last = NoMessage
    /\ arrivals = <<"c1", "c2">>
    /\ sessions = << <<"c1", "c2">> >>
    /\ handler = [c \in Conn |-> Idle]
    /\ outbound = [c \in Conn |-> NoTraffic]
    /\ ident = [c \in Conn |-> c]
    /\ game = NoGame
    /\ socket = NoSocket

\* The payloads of the messages handled while the channels are followed.
SendPayloads == {[ok |-> TRUE, score |-> 0], [ok |-> TRUE, score |-> MaxDelta]}

NextSend ==
    \/ \E c \in Conn : WritePump(c)
    \/ \E c \in Conn : WriteFails(c)
    \/ \E c \in Conn, p \in SendPayloads :
         Traffic < MaxTraffic /\ UpdateScore(c, p)
    \/ \E c \in Conn :
         Traffic < MaxTraffic /\ PlayerDied(c, [ok |-> TRUE, score |-> 0])
    \/ \E c \in Conn : Traffic < MaxTraffic /\ LeaveGame(c)

SpecSend == InitSend /\ [][NextSend]_vars

Buffer(c) == outbound[c].buffer

\* The first n messages of msgs, all of them when there are fewer.
FirstOf(msgs, n) == SubSeq(msgs, 1, IF n < Len(msgs) THEN n ELSE Len(msgs))

\* C21: a handler step returns whatever the fill of the channels; of the
\* messages it passes to SendJSON for a connection, those that find the
\* channel full are dropped and leave the messages in the channel as they
\* were, the others are appended at the tail in the order sent; the
\* channels the step does not send to are unchanged.
C21_AppendOrDrop ==
    [][last' # NoMessage =>
         \A d \in Conn :
           Buffer(d)' = Buffer(d) \o FirstOf(sent'[d],
                                              SendCap - Len(Buffer(d)))]_vars

\* A message for a full channel was dropped: the channel is full and the
\* latest message sent to it is not the one at its tail.
C21_Witness ==
    \E d \in Conn :
        /\ Len(Buffer(d)) = SendCap
        /\ sent[d] # <<>>
        /\ sent[d][Len(sent[d])] # Buffer(d)[SendCap]
        /\ Len(outbound[d].accepted) = SendCap

\* The messages notifyOpponent sends.
Notifications(msgs) ==
    {i \in DOMAIN msgs : msgs[i].type \in {"OPPONENT_UPDATE", "OPPONENT_LEFT"}}

\* The registered connections other than c whose room identifier is c's.
Opponents(c) ==
    {d \in Registered \ {c} : clients[d].RoomID = clients[c].RoomID}

\* C22: the opponent notifications of a handler go only to connections that
\* are registered, have the room identifier of the connection whose message
\* is handled, and are not that connection; when there is no such
\* connection the handler sends no notification, no buffer changes and the
\* process goes on.
C22_NotifyRoomOnly ==
    [][\A c \in Conn : (last'.c = c /\ last' # NoMessage) =>
         /\ \A d \in Conn : Notifications(sent'[d]) # {} => d \in Opponents(c)
         /\ Opponents(c) = {} =>
              /\ \A d \in Conn : Notifications(sent'[d]) = {}
              /\ \A d \in Conn \ {c} : send'[d] = send[d]
              /\ ~panicked']_vars

\* "c1" reported a score and "c2", in its room, was sent the notification
\* while "c3" was not.
C22_Witness ==
    /\ last.op = "UPDATE_SCORE" /\ last.c = "c1" /\ last.res = "accepted"
    /\ clients["c2"].RoomID = clients["c1"].RoomID
    /\ Notifications(sent["c2"]) # {}
    /\ sent["c1"] = <<>> /\ sent["c3"] = <<>>

\* C23: no goroutine ever panics: no SendJSON finds the Send channel of its
\* connection closed and no channel is closed a second time.
C23_NeverFatal == ~panicked

(***************************************************************************)
(* The registry: the game of InitGame while connections come and go.  The  *)
(* identifier of a new connection is the first eight hex digits of a       *)
(* random UUID, which may be those of a connection that is still there.    *)
(***************************************************************************)
NextHub ==
    \/ \E c \in Conn, id \in Conn : Connect(c, id)
    \/ HubRegister
    \/ \E c \in Conn : Disconnect(c)
    \/ HubUnregister
    \/ \E c \in Conn : LeaveGame(c)

SpecHub == InitGame /\ [][NextHub]_vars

\* The hub loop has applied c's Register and not yet its Unregister.
Live(c) ==
    \/ readLoop[c] = "running" /\ hubPending # [kind |-> "register", c |-> c]
    \/ readLoop[c] = "ended" /\ hubPending = [kind |-> "unregister", c |-> c]

\* C24: when the hub loop applies the Unregister of a connection it had
\* registered, the connection's identifier leaves the registry and its Send
\* channel, open until then, is closed; an Unregister of a connection that
\* is not registered changes neither the registry nor any channel.
C24_UnregisterOnce ==
    [][(hubPending.kind = "unregister" /\ hubPending' = NoRequest) =>
         LET c == hubPending.c
         IN  IF Live(c)
             THEN /\ ident[c] \notin DOMAIN hubClients'
                  /\ c \notin closed /\ c \in closed'
                  /\ ~panicked'
             ELSE hubClients' = hubClients /\ closed' = closed]_vars

\* C25: when the hub loop applies a Register whose identifier is in the
\* registry, the registry is unchanged: the identifier stays with the
\* connection registered first.
C25_RegisterPresentNoOp ==
    [][(hubPending.kind = "register" /\ hubPending' = NoRequest
          /\ ident[hubPending.c] \in DOMAIN hubClients) =>
         hubClients' = hubClients]_vars

\* The room identifiers a scan is asked for.
Rooms == {NoRoom, 1}

\* C26: the identifiers in the registry are those of the connections
\* registered and not yet unregistered; GetClient finds such a connection
\* under each of them and nothing under any other identifier; and
\* GetClientsInRoom(r) is the set of those connections whose RoomID is r.
C26_RegistryExact ==
    /\ \A id \in Conn :
         IF \E c \in Conn : Live(c) /\ ident[c] = id
         THEN /\ GetClient(id).ok
              /\ Live(GetClient(id).client)
              /\ ident[GetClient(id).client] = id
         ELSE GetClient(id) = [client |-> Nil, ok |-> FALSE]
    /\ \A r \in Rooms :
         GetClientsInRoom(clients, r)
           = {c \in Conn : Live(c) /\ clients[c].RoomID = r}

(***************************************************************************)
(* The leaderboard failing: the game of InitGame, where any of the         *)
(* SaveScore calls of a handler may return an error.                       *)
(***************************************************************************)
\* The payloads of the PLAYER_DIED messages handled while saves may fail.
SavePayloads == {[ok |-> TRUE, score |-> 0], [ok |-> TRUE, score |-> MaxDelta]}

NextSave ==
    \/ \E c \in Conn, p \in SavePayloads, fail \in SUBSET {"c1", "c2"} :
         PlayerDiedSave(c, p, fail)
    \/ \E c \in Conn, fail \in SUBSET {"c1", "c2"} : LeaveGameSave(c, fail)
    \/ \E c \in Conn : Disconnect(c)
    \/ HubUnregister
    \/ \E c \in Conn : WritePump(c)

SpecSave == InitGame /\ [][NextSave]_vars

\* The client a handler leaves for the next game.
IsReset(client) ==
    client.RoomID = NoRoom /\ client.IsAlive /\ client.Score = 0

\* C27: whichever SaveScore calls fail, a PLAYER_DIED or LEAVE_GAME handler
\* leaves the clients, the buffers, the messages sent and the SaveScore
\* calls made as it leaves them when none fails; a resolution passes one
\* GAME_OVER to every client of the room, calls SaveScore once for each and
\* resets each; a LEAVE_GAME passes OPPONENT_LEFT to the opponents and
\* resets the leaver.
C27_SaveFailureIgnored ==
    [][\A c \in Conn : (last'.c = c /\ last' # NoMessage) =>
         LET room == GetClientsInRoom(clients, clients[c].RoomID)
             Same(w) == /\ clients' = w.cl /\ send' = w.sd /\ sent' = w.out
                        /\ saved' = w.sv /\ panicked' = w.pn
                        /\ last'.res = w.res
         IN  /\ last'.op = "PLAYER_DIED" =>
                  \E p \in SavePayloads, notified, roomClients \in Orders(room) :
                      Same(handlePlayerDied(World, c, p, notified, roomClients))
             /\ last'.op = "LEAVE_GAME" =>
                  \E roomClients \in Orders(room) :
                      Same(handleLeaveGame(World, c, roomClients))
             /\ (last'.res = "game_over" /\ ~panicked') =>
                  /\ \A d \in room :
                       /\ Len(GameOvers(sent'[d])) = 1
                       /\ IsReset(clients'[d])
                  /\ Len(saved') = Cardinality(room)
                  /\ {saved'[i].id : i \in DOMAIN saved'} = {ID(d) : d \in room}
             /\ (last'.res = "left" /\ ~panicked') =>
                  /\ \A d \in Opponents(c) :
                       sent'[d] = <<OpponentLeft(clients[c].Score)>>
                  /\ IsReset(clients'[c]) /\ ~clients'[c].InQueue
                  /\ Len(saved') = 1 /\ saved'[1].id = ID(c)]_vars

\* A both-dead resolution during which both SaveScore calls failed.
C27_Witness ==
    /\ last.op = "PLAYER_DIED" /\ last.res = "game_over"
    /\ Len(logged) = 2 /\ Len(saved) = 2
    /\ \A d \in {"c1", "c2"} :
         Len(GameOvers(sent[d])) = 1 /\ IsReset(clients[d])

(***************************************************************************)
(* Messages that cannot be parsed: the game of InitGame, where a message   *)
(* may fail json.Unmarshal as a whole or in its payload.                   *)
(***************************************************************************)
NextParse ==
    \/ \E c \in Conn : BadEnvelope(c)
    \/ \E c \in Conn, p \in ScorePayloads : UpdateScore(c, p)
    \/ \E c \in Conn, p \in ScorePayloads : PlayerDied(c, p)
    \/ \E c \in Conn : LeaveGame(c)
    \/ \E c \in Conn : Disconnect(c)
    \/ HubUnregister

SpecParse == InitGame /\ [][NextParse]_vars

\* C28: a message that fails to parse, as a whole or, for UPDATE_SCORE and
\* PLAYER_DIED, in its payload, changes no client, buffer or registry
\* entry, sends and saves nothing, and leaves the read loop of its
\* connection running, ready for the next message.
C28_UnparsedDropped ==
    [][last'.res = "parse_error" =>
         /\ last'.op \in {"unparsed", "UPDATE_SCORE", "PLAYER_DIED"}
         /\ clients' = clients
         /\ send' = send
         /\ NothingSent
         /\ saved' = <<>>
         /\ hubClients' = hubClients /\ closed' = closed
         /\ hubPending' = hubPending
         /\ readLoop' = readLoop /\ readLoop'[last'.c] = "running"
         /\ ~panicked']_vars

\* "c1", with a score of 50 and its opponent dead, sent a PLAYER_DIED whose
\* payload did not parse.
C28_Witness ==
    /\ last = [op |-> "PLAYER_DIED", c |-> "c1", res |-> "parse_error"]
    /\ clients["c1"].Score = MaxDelta /\ clients["c1"].IsAlive
    /\ clients["c1"].RoomID = 1 /\ clients["c2"].RoomID = 1
    /\ ~clients["c2"].IsAlive

\* Whether the sequence s is the beginning of the sequence t.
IsPrefix(s, t) == Len(s) <= Len(t) /\ SubSeq(t, 1, Len(s)) = s

\* What WritePump has written for c is the beginning of what entered c's
\* Send channel, and what entered is what was written, then the message a
\* failed write lost, then what is still in the channel.
WireOrder(c) ==
    LET ob == outbound[c]
    IN  /\ IsPrefix(ob.written, ob.accepted)
        /\ IF ob.pump = "running"
           THEN ob.accepted = ob.written \o ob.buffer
           ELSE /\ Len(ob.accepted) = Len(ob.written) + 1 + Len(ob.buffer)
                /\ SubSeq(ob.accepted, Len(ob.written) + 2, Len(ob.accepted))
                     = ob.buffer

\* C29: for every connection, the messages written to its socket are the
\* messages that entered its Send channel, in the order they entered and
\* each once, up to the first write that fails; and the messages a handler
\* sends enter the channel after those of every earlier handler, so that
\* the notifications of events handled one after the other are written in
\* the order of the events.
C29_WrittenInOrder ==
    /\ [](\A c \in Conn : WireOrder(c))
    /\ [][last' # NoMessage =>
            \A d \in Conn :
              /\ outbound'[d].written = outbound[d].written
              /\ outbound'[d].accepted
                   = outbound[d].accepted
                       \o FirstOf(sent'[d], SendCap - Len(Buffer(d)))]_vars

\* "c2" was written the notification of "c1"'s score of 50 and then that of
\* its score of 0, the order in which the two UPDATE_SCORE were handled.
C29_Witness ==
    /\ outbound["c2"].written
         = <<OpponentUpdate(MaxDelta, TRUE), OpponentUpdate(0, TRUE)>>
    /\ outbound["c2"].accepted = outbound["c2"].written
    /\ clients["c1"].Score = 0

(***************************************************************************)
(* The game client (GameCanvas).  Lengths and speeds are in tenths of a    *)
(* pixel, so that GRAVITY (0.6) and the speed step (0.3) are integers.     *)
(* SeededRNG keeps RngBits bits of state instead of 32: next() returns the *)
(* state as a fraction of RngMod, and a comparison of that fraction with a *)
(* threshold is made on the numerators.                                    *)
(***************************************************************************)
CANVAS_WIDTH == 8000
GROUND_Y == 4500
DINO_WIDTH == 400
DINO_HEIGHT == 500
DINO_DUCK_HEIGHT == 250
GRAVITY == 6
JUMP_FORCE == 0 - 120
FAST_FALL_FORCE == 200
CACTUS_WIDTH == 250
CACTUS_HEIGHT == 450
BIRD_WIDTH == 350
BIRD_HEIGHT == 250
BIRD_HIGH_Y == GROUND_Y - 800
BIRD_LOW_Y == GROUND_Y - 350

RngMod == 2 ^ RngBits

\* SeededRNG.next: the new state; the value returned is next / RngMod.
next(seed) == (seed * (1664525 % RngMod) + (1013904223 % RngMod)) % RngMod

\* The seeds of the games followed.
GameSeeds == {5, 7}

\* resetGame; spawned lists the obstacles generated so far, each with the
\* frame it was generated in.
NewGame(seed) ==
    [seed |-> seed, dinoY |-> 0, dinoVelocity |-> 0, isJumping |-> FALSE,
     isDucking |-> FALSE, obstacles |-> <<>>, score |-> 0, speed |-> 50,
     gameOver |-> FALSE, rng |-> seed, lastObstacleType |-> "none",
     framesSinceLastObstacle |-> 0, spawned |-> <<>>]

\* getMinGapFrames, in tenths of a frame.
getMinGapFrames(speed) ==
    LET jumpDuration == 400
        reactionTime == 200
        byJump == jumpDuration + reactionTime
        bySpeed == 600 - speed * 2
    IN  IF byJump >= bySpeed THEN byJump ELSE bySpeed

\* The obstacle pushed, and the record of it in spawned.
Push(g, rng, obstacle) ==
    [g EXCEPT !.rng = rng,
              !.obstacles = Append(@, obstacle),
              !.lastObstacleType = obstacle.type,
              !.framesSinceLastObstacle = 0,
              !.spawned = Append(@, [frame |-> g.score + 1,
                                     type |-> obstacle.type,
                                     y |-> obstacle.y,
                                     height |-> obstacle.height])]

\* spawnObstacle that waits while the dino is in the air, and has no birds.
spawnObstacleOnGround(g) ==
    LET frames == g.framesSinceLastObstacle * 10
        minGapFrames == getMinGapFrames(g.speed)
        gap == next(g.rng)
        type == next(gap)
    IN  IF frames < minGapFrames \/ g.isJumping THEN g
        ELSE IF frames * RngMod < minGapFrames * RngMod + gap * 400
        THEN [g EXCEPT !.rng = gap]
        ELSE Push(g, type, [x |-> CANVAS_WIDTH, width |-> CACTUS_WIDTH,
                            height |-> CACTUS_HEIGHT, type |-> "cactus",
                            y |-> GROUND_Y])

\* spawnObstacle
spawnObstacle(g) ==
    LET frames == g.framesSinceLastObstacle * 10
        minGapFrames == getMinGapFrames(g.speed)
        gap == next(g.rng)
        type == next(gap)
        height == next(type)
        canSpawnBird == g.score > 100
        isBird == canSpawnBird /\ type * 10 > 7 * RngMod
        actuallyBird == isBird /\ g.lastObstacleType # "bird"
    IN  IF frames < minGapFrames THEN g
        ELSE IF frames * RngMod < minGapFrames * RngMod + gap * 400
        THEN [g EXCEPT !.rng = gap]
        ELSE IF actuallyBird
        THEN Push(g, height,
                  [x |-> CANVAS_WIDTH, width |-> BIRD_WIDTH,
                   height |-> BIRD_HEIGHT, type |-> "bird",
                   y |-> IF height * 2 > RngMod THEN BIRD_HIGH_Y
                         ELSE BIRD_LOW_Y])
        ELSE Push(g, type,
                  [x |-> CANVAS_WIDTH, width |-> CACTUS_WIDTH,
                   height |-> CACTUS_HEIGHT, type |-> "cactus",
                   y |-> GROUND_Y])

\* update, "Update dino physics"
Physics(g) ==
    IF ~g.isJumping THEN g
    ELSE LET v == g.dinoVelocity + GRAVITY
             y == g.dinoY + v
         IN  IF y >= 0
             THEN [g EXCEPT !.dinoY = 0, !.isJumping = FALSE,
                            !.dinoVelocity = 0]
             ELSE [g EXCEPT !.dinoY = y, !.dinoVelocity = v]

\* update, "Update obstacles"
MoveObstacles(g) ==
    LET moved == [i \in DOMAIN g.obstacles |->
                    [g.obstacles[i] EXCEPT !.x = @ - g.speed]]
    IN  [g EXCEPT !.obstacles =
                      SelectSeq(moved, LAMBDA obs : obs.x > 0 - obs.width)]

\* update, "Update score" and "Increase speed gradually"
Score(g) ==
    LET score == g.score + 1
    IN  [g EXCEPT !.score = score,
                  !.speed = IF score % 500 = 0 /\ score > 0
                            THEN (IF @ + 3 < 120 THEN @ + 3 ELSE 120)
                            ELSE @]

\* update, "Collision detection"
Collides(g) ==
    LET dinoHeight == IF g.isDucking THEN DINO_DUCK_HEIGHT ELSE DINO_HEIGHT
        hitboxPadding == 50
        dx == 500 + hitboxPadding
        dy == GROUND_Y - dinoHeight + g.dinoY + hitboxPadding
        dw == DINO_WIDTH - hitboxPadding * 2
        dh == dinoHeight - hitboxPadding * 2
    IN  \E i \in DOMAIN g.obstacles :
          LET obs == g.obstacles[i]
              ox == obs.x + hitboxPadding
              oy == IF obs.type = "bird" THEN obs.y + hitboxPadding
                    ELSE obs.y - obs.height + hitboxPadding
              ow == obs.width - hitboxPadding * 2
              oh == obs.height - hitboxPadding * 2
          IN  /\ dx < ox + ow
              /\ dx + dw > ox
              /\ dy < oy + oh
              /\ dy + dh > oy

\* update, up to the collision detection
Frame(g) ==
    Score(spawnObstacle(MoveObstacles(Physics(
        [g EXCEPT !.framesSinceLastObstacle = @ + 1]))))

\* update
update(g) ==
    IF g.gameOver THEN g
    ELSE LET g1 == Frame(g)
         IN  IF Collides(g1) THEN [g1 EXCEPT !.gameOver = TRUE] ELSE g1

\* jump (isRunning holds while a game is shown)
jump(g) ==
    IF ~g.isJumping /\ ~g.gameOver
    THEN [g EXCEPT !.isJumping = TRUE, !.dinoVelocity = JUMP_FORCE,
                   !.isDucking = FALSE]
    ELSE g

\* duck
duck(g, isDucking) ==
    IF g.gameOver THEN g
    ELSE IF isDucking
    THEN IF g.isJumping
         THEN [g EXCEPT !.dinoVelocity = FAST_FALL_FORCE, !.isDucking = TRUE]
         ELSE [g EXCEPT !.isDucking = TRUE]
    ELSE [g EXCEPT !.isDucking = FALSE]

\* What the browser leaves alone: the server.
Server == <<clients, send, sent, closed, hubClients, hubPending, readLoop,
            queue, waiting, nextRoom, panicked, saved, last, arrivals,
            sessions, handler, outbound, ident, logged>>

\* handleKeyDown, Space or ArrowUp
KeyJump ==
    /\ game' = jump(game)
    /\ game' # game
    /\ UNCHANGED Server
    /\ socket' = socket

\* handleKeyDown and handleKeyUp, ArrowDown
KeyDuck(isDucking) ==
    /\ game' = duck(game, isDucking)
    /\ game' # game
    /\ UNCHANGED Server
    /\ socket' = socket

\* gameLoop: one animation frame
GameLoop ==
    /\ ~game.gameOver
    /\ game.score < MaxFrames
    /\ game' = update(game)
    /\ UNCHANGED Server
    /\ socket' = socket

InitPlay ==
    /\ clients = [c \in Conn |->
                    IF c = "c3" THEN NewClient
                    ELSE [Name |-> c, RoomID |-> 1, InQueue |-> FALSE,
                          Score |-> 0, IsAlive |-> TRUE]]
    /\ send = [c \in Conn |-> 0]
    /\ sent = [c \in Conn |-> <<>>]
    /\ closed = {}
    /\ hubClients = [id \in Conn \ {"c3"} |-> id]
    /\ hubPending = NoRequest
    /\ readLoop = [c \in Conn |-> IF c = "c3" THEN "idle" ELSE "running"]
    /\ queue = <<>>
    /\ waiting = Nil
    /\ nextRoom = 1
    /\ panicked = FALSE
    /\ saved = <<>>
    /\ logged = <<>>
    /\ last = NoMessage
    /\ arrivals = <<"c1", "c2">>
    /\ sessions = << <<"c1", "c2">> >>
    /\ handler = [c \in Conn |-> Idle]
    /\ outbound = NotFollowed
    /\ ident = [c \in Conn |-> c]
    /\ \E seed \in GameSeeds : game = NewGame(seed)
    /\ socket = NoSocket

NextPlay ==
    \/ KeyJump
    \/ \E isDucking \in BOOLEAN : KeyDuck(isDucking)
    \/ GameLoop

SpecPlay == InitPlay /\ [][NextPlay]_vars

\* n frames of a player who touches no key and is hit by nothing.
RECURSIVE Frames(_, _)
Frames(g, n) ==
    IF n = 0 \/ g.gameOver THEN g
    ELSE IF n = 1 THEN Frame(g)
    ELSE Frames(Frames(g, n \div 2), n - n \div 2)

\* Reference[seed][k]: the game of that seed after k such frames.
Reference ==
    [seed \in GameSeeds |->
        [k \in 0..MaxFrames |-> Frames(NewGame(seed), k)]]

\* C30: after any number of frames and whatever keys were pressed between
\* them, the obstacles generated so far (frame, type, height and y of each),
\* the obstacles on the canvas and the state of the generator are those of
\* the game of the same seed after as many frames with no key pressed.
C30_ObstaclesBySeedAndFrame ==
    LET ref == Reference[game.seed][game.score]
    IN  /\ game.spawned = ref.spawned
        /\ game.obstacles = ref.obstacles
        /\ game.rng = ref.rng
        /\ game.lastObstacleType = ref.lastObstacleType
        /\ game.framesSinceLastObstacle = ref.framesSinceLastObstacle

\* A run that has ended on a cactus with the player ducking, after a cactus,
\* a bird and a cactus were generated.
C30_Witness ==
    /\ game.gameOver
    /\ game.isDucking
    /\ Len(game.spawned) = 3
    /\ game.spawned[2].type = "bird"

(***************************************************************************)
(* Reports of a participant that has died.                                 *)
(***************************************************************************)
\* The steps that handle an UPDATE_SCORE or a PLAYER_DIED of c while c is
\* registered, in a room and dead, and its opponent is in the room alive.
DeadReports(c) ==
    /\ c \in Registered
    /\ InRoom(c)
    /\ ~clients[c].IsAlive
    /\ \E d \in Opponents(c) : clients[d].IsAlive
    /\ last'.c = c
    /\ last'.op \in {"UPDATE_SCORE", "PLAYER_DIED"}

\* C31: a score or death report of a participant that is already dead, in
\* a session that has not resolved, changes neither its stored score nor its
\* alive flag, and no GAME_OVER is sent.
C31_DeadReportIgnored ==
    [][\A c \in Conn : DeadReports(c) =>
          /\ clients'[c].Score = clients[c].Score
          /\ clients'[c].IsAlive = clients[c].IsAlive
          /\ \A d \in Conn : GameOvers(sent'[d]) = <<>>]_vars

\* The SaveScore calls of the latest handler for the identifier id.
SavedFor(id) == SelectSeq(saved, LAMBDA call : call.id = id)

\* C32: a PLAYER_DIED that parses, from a registered connection in a room,
\* stores the reported score whatever it is; when the handler resolves the
\* room, the winner of its GAME_OVER is decided with that score and the one
\* SaveScore call for the sender carries it; otherwise the sender is left
\* dead with that score.
C32_DeathScoreUnchecked ==
    [][\A c \in Conn :
         (c \in Registered /\ InRoom(c) /\ last'.c = c
              /\ last'.op = "PLAYER_DIED") =>
         \A p \in ScorePayloads : (p.ok /\ PlayerDied(c, p)) =>
           IF last'.res = "game_over"
           THEN /\ Len(SavedFor(ID(c))') = 1
                /\ SavedFor(ID(c))'[1].score = p.score
                /\ Len(GameOvers(sent'[c])) = 1
                /\ \A d \in Opponents(c) : Opponents(c) = {d} =>
                     GameOvers(sent'[c])[1].payload.winnerId =
                       WinnerBy(ID(c), p.score, ID(d), clients[d].Score)
                /\ Opponents(c) = {} =>
                     GameOvers(sent'[c])[1].payload.winnerId = ID(c)
           ELSE /\ last'.res = "continues"
                /\ clients'[c].Score = p.score
                /\ ~clients'[c].IsAlive
                /\ saved' = <<>>]_vars

\* "c1" died second with a score of 51, above the bound of 50 from every
\* score its opponent, saved with 0, allowed it: it won and was saved with 51.
C32_Witness ==
    /\ last = [op |-> "PLAYER_DIED", c |-> "c1", res |-> "game_over"]
    /\ \E i, j \in DOMAIN saved :
         /\ saved[i] = [id |-> "c1", name |-> "c1", score |-> MaxDelta + 1]
         /\ saved[j] = [id |-> "c2", name |-> "c2", score |-> 0]
    /\ GameOvers(sent["c1"]) = <<GameOver("c1", "all_players_died")>>

(***************************************************************************)
(* A participant that vanishes.                                            *)
(***************************************************************************)
\* The step in which the read loop of c ends and ServeWs calls
\* hub.Unregister, and the step in which the hub loop applies that request.
Vanishes(c) ==
    \/ readLoop[c] = "running" /\ readLoop'[c] = "ended"
    \/ hubPending = [kind |-> "unregister", c |-> c] /\ hubPending' = NoRequest

InitRooms ==
    /\ clients = [c \in Conn |->
                    IF c = "c3"
                    THEN [NewClient EXCEPT !.Name = "c3", !.InQueue = TRUE]
                    ELSE [Name |-> c, RoomID |-> 1, InQueue |-> FALSE,
                          Score |-> 0, IsAlive |-> TRUE]]
    /\ send = [c \in Conn |-> 0]
    /\ sent = [c \in Conn |-> <<>>]
    /\ closed = {}
    /\ hubClients = [id \in Conn |-> id]
    /\ hubPending = NoRequest
    /\ readLoop = [c \in Conn |-> "running"]
    /\ queue = <<>>
    /\ waiting = "c3"
    /\ nextRoom = 1
    /\ panicked = FALSE
    /\ saved = <<>>
    /\ logged = <<>>
    /\ last = NoMessage
    /\ arrivals = <<"c1", "c2", "c3">>
    /\ sessions = << <<"c1", "c2">> >>
    /\ handler = [c \in Conn |-> Idle]
    /\ outbound = NotFollowed
    /\ ident = [c \in Conn |-> c]
    /\ game = NoGame
    /\ socket = NoSocket

\* The connection whose PLAYER_DIED handler is followed statement by
\* statement; the handlers of the others run between its statements.
Stepped == {"c1"}

NextRooms ==
    \/ \E c \in Stepped : DiedSetScore(c, [ok |-> TRUE, score |-> 0])
    \/ \E c \in Stepped : DiedSetAlive(c)
    \/ \E c \in Stepped : DiedNotify(c)
    \/ \E c \in Stepped : DiedGetRoom(c)
    \/ \E c \in Stepped : DiedCheckAlive(c)
    \/ \E c \in Stepped : DiedWinner(c)
    \/ \E c \in Stepped : DiedGameOver(c)
    \/ \E c \in Stepped : DiedPersist(c)
    \/ \E c \in Stepped : DiedCleanUp(c)
    \/ \E c \in Conn \ Stepped : PlayerDied(c, [ok |-> TRUE, score |-> 0])
    \/ \E c \in Conn \ Stepped : LeaveGame(c)
    \/ \E c \in Conn \ Stepped : JoinQueue(c, [ok |-> TRUE, name |-> ""])
    \/ MatchmakerRun

SpecRooms == InitRooms /\ [][NextRooms]_vars

\* The step is one of c's PLAYER_DIED handler, run statement by statement.
StepOfDied(c) == handler'[c] # handler[c]

\* C34: a step of the PLAYER_DIED handler of a connection that holds room R
\* enqueues no message to, and changes no field of, a connection that does
\* not hold R at that step.
C34_RoomsIndependent ==
    [][\A c \in Conn : (InRoom(c) /\ StepOfDied(c)) =>
         \A d \in Conn : clients[d].RoomID # clients[c].RoomID =>
            /\ send'[d] = send[d]
            /\ clients'[d] = clients[d]]_vars

(***************************************************************************)
(* The end of a connection: the game of InitSend, where the read loop of a *)
(* connection may end while messages for it are buffered, and where "c3"   *)
(* may connect, under any identifier.  The hub loop                        *)
(* and every WritePump keep taking steps; whether a write to the socket    *)
(* succeeds is up to the socket, which ServeWs closes as soon as           *)
(* hub.Unregister has returned.                                            *)
(***************************************************************************)
\* Client.WritePump, case message, ok := <-c.Send with ok false: the
\* channel is closed and empty, and WritePump returns.
PumpEnds(c) ==
    /\ ~panicked
    /\ Followed(outbound)
    /\ Pumping(outbound, c)
    /\ c \in closed
    /\ send[c] = 0
    /\ outbound' = [outbound EXCEPT ![c].pump = "ended"]
    /\ NoHandler
    /\ NoSend
    /\ UNCHANGED <<handler, clients, send, closed, game, socket, hubClients, hubPending,
                   readLoop, ident, queue, waiting, nextRoom, panicked,
                   arrivals, sessions>>

\* One step of the loop of WritePump for c.
PumpStep(c) == WritePump(c) \/ WriteFails(c) \/ PumpEnds(c)

\* The identifiers ServeWs may draw for a new connection: a fresh one, or
\* the one "c1" has.
NewIDs == {"c1", "c3"}

NextDrain ==
    \/ \E c \in Conn, id \in NewIDs : Connect(c, id)
    \/ HubRegister
    \/ \E c \in Conn : WritePump(c)
    \/ \E c \in Conn : WriteFails(c)
    \/ \E c \in Conn : PumpEnds(c)
    \/ \E c \in Conn : Disconnect(c)
    \/ HubUnregister
    \/ \E c \in Conn :
         Traffic < MaxTraffic /\ UpdateScore(c, [ok |-> TRUE, score |-> 0])

SpecDrain ==
    /\ InitSend
    /\ [][NextDrain]_vars
    /\ WF_vars(HubRegister)
    /\ WF_vars(HubUnregister)
    /\ \A c \in Conn : WF_vars(PumpStep(c))

\* c is gone from the registry, its Send channel is closed, and its
\* WritePump has written every message that entered the channel and returned.
Drained(c) ==
    /\ c \notin Registered
    /\ c \in closed
    /\ outbound[c].pump = "ended"
    /\ outbound[c].buffer = <<>>
    /\ outbound[c].written = outbound[c].accepted

\* C35: once the read loop of a connection has ended, the connection is
\* eventually out of the registry with its Send channel closed and its
\* WritePump returned, every buffered message written.
C35_DrainsAndEnds ==
    \A c \in Conn : (readLoop[c] = "ended") ~> Drained(c)

(***************************************************************************)
(* The last participant of a room.                                         *)
(***************************************************************************)
\* The step handles a PLAYER_DIED that parses, sent by c while c is
\* registered and in a room no other registered connection holds.
LoneDeath(c) ==
    /\ c \in Registered
    /\ InRoom(c)
    /\ Opponents(c) = {}
    /\ last'.c = c
    /\ last'.op = "PLAYER_DIED"
    /\ last'.res # "parse_error"

\* C36: a PLAYER_DIED of a registered connection whose room no other
\* registered connection holds resolves the room in the same handler: one
\* GAME_OVER naming the sender as winner, with the reason
\* "all_players_died", is passed to the sender and to nobody else, and is
\* enqueued unless the sender's buffer is full; SaveScore is called once,
\* for the sender with the reported score; the sender is reset.
C36_LoneDeathResolves ==
    [][\A c \in Conn : LoneDeath(c) =>
         /\ last'.res = "game_over"
         /\ sent' = [d \in Conn |->
                        IF d = c THEN <<GameOver(ID(c), "all_players_died")>>
                        ELSE <<>>]
         /\ send' = [send EXCEPT ![c] = Fill(c)]
         /\ \A p \in ScorePayloads : (p.ok /\ PlayerDied(c, p)) =>
              saved' = <<[id |-> ID(c), name |-> clients[c].Name,
                          score |-> p.score]>>
         /\ Len(saved') = 1
         /\ IsReset(clients'[c])]_vars

\* C36 as stated: the sender always receives the GAME_OVER.
C36_AlwaysReceived ==
    [][\A c \in Conn : LoneDeath(c) => send'[c] = send[c] + 1]_vars

\* "c2" has disconnected; "c1" died with a score of 50, was told that it
\* won, was saved with 50 and was reset.
C36_Witness ==
    /\ last = [op |-> "PLAYER_DIED", c |-> "c1", res |-> "game_over"]
    /\ "c2" \notin Registered /\ clients["c2"].RoomID = 1
    /\ sent["c1"] = <<GameOver("c1", "all_players_died")>>
    /\ saved = <<[id |-> "c1", name |-> "c1", score |-> MaxDelta]>>
    /\ IsReset(clients["c1"])

(***************************************************************************)
(* Pairing a connection that is gone.                                      *)
(***************************************************************************)
\* C37: when the matchmaker loop creates a session, both of its
\* participants are in the registry.
C37_PairsRegistered ==
    [][Len(sessions') > Len(sessions) =>
          \A i \in 1 .. 2 : sessions'[Len(sessions')][i] \in Registered]_vars

(***************************************************************************)
(* Register and Unregister against the hub loop.                           *)
(***************************************************************************)
\* C38: a connection whose Register has returned (its read loop runs) is
\* found by GetClient under its identifier, and a connection whose
\* Unregister has returned (its read loop has ended) is not.
C38_EffectBeforeReturn ==
    \A c \in Conn :
       /\ readLoop[c] = "running" =>
            GetClient(ID(c)) = [client |-> c, ok |-> TRUE]
       /\ readLoop[c] = "ended" => GetClient(ID(c)).client # c

(***************************************************************************)
(* The socket of the browser (GameSocket).  Every call of connect creates  *)
(* a WebSocket and sets its handlers; state lists the readyState of the    *)
(* WebSockets created so far, ws is the index of the one this.ws refers to *)
(* (0 for null) and timers counts the setTimeout callbacks of tryReconnect *)
(* that have not run yet.  A WebSocket is CONNECTING when created; it      *)
(* opens (open event) or fails, and a WebSocket that fails, is closed by   *)
(* the server or by close() gets one close event.                          *)
(***************************************************************************)
maxReconnectAttempts == 5

\* A GameSocket as its constructor leaves it.
NewSocket == [ws |-> 0, state |-> <<>>, reconnectAttempts |-> 0, timers |-> 0]

\* tryReconnect that tests reconnectAttempts <= maxReconnectAttempts.
tryReconnectOnceMore(s) ==
    IF s.reconnectAttempts <= maxReconnectAttempts
    THEN [s EXCEPT !.reconnectAttempts = @ + 1, !.timers = @ + 1]
    ELSE s

\* GameSocket.tryReconnect
tryReconnect(s) ==
    IF s.reconnectAttempts < maxReconnectAttempts
    THEN [s EXCEPT !.reconnectAttempts = @ + 1, !.timers = @ + 1]
    ELSE s

\* GameSocket.connect: this.ws = new WebSocket(this.url)
connect(s) ==
    [s EXCEPT !.state = Append(@, "connecting"), !.ws = Len(s.state) + 1]

\* GameSocket.disconnect: this.ws.close(); this.ws = null
disconnect(s) ==
    IF s.ws # 0
    THEN [s EXCEPT !.state[s.ws] = IF @ = "closed" THEN @ ELSE "closing",
                   !.ws = 0]
    ELSE s

\* The page calls connect().
CallConnect ==
    /\ Len(socket.state) < MaxSockets
    /\ socket' = connect(socket)
    /\ UNCHANGED Server
    /\ game' = game

\* The callback of setTimeout in tryReconnect runs: this.connect().
TimerFires ==
    /\ socket.timers > 0
    /\ Len(socket.state) < MaxSockets
    /\ socket' = connect([socket EXCEPT !.timers = @ - 1])
    /\ UNCHANGED Server
    /\ game' = game

\* The page calls disconnect().
CallDisconnect ==
    /\ socket.ws # 0
    /\ socket' = disconnect(socket)
    /\ UNCHANGED Server
    /\ game' = game

\* ws.onopen of WebSocket i
OnOpen(i) ==
    /\ socket.state[i] = "connecting"
    /\ socket' = [socket EXCEPT !.state[i] = "open", !.reconnectAttempts = 0]
    /\ UNCHANGED Server
    /\ game' = game

\* ws.onclose of WebSocket i
OnClose(i) ==
    /\ socket.state[i] # "closed"
    /\ socket' = tryReconnect([socket EXCEPT !.state[i] = "closed"])
    /\ UNCHANGED Server
    /\ game' = game

InitSocket ==
    /\ clients = [c \in Conn |-> NewClient]
    /\ send = [c \in Conn |-> 0]
    /\ sent = [c \in Conn |-> <<>>]
    /\ closed = {}
    /\ hubClients = [id \in {} |-> Nil]
    /\ hubPending = NoRequest
    /\ readLoop = [c \in Conn |-> "idle"]
    /\ queue = <<>>
    /\ waiting = Nil
    /\ nextRoom = 0
    /\ panicked = FALSE
    /\ saved = <<>>
    /\ logged = <<>>
    /\ last = NoMessage
    /\ arrivals = <<>>
    /\ sessions = <<>>
    /\ handler = [c \in Conn |-> Idle]
    /\ outbound = NotFollowed
    /\ ident = [c \in Conn |-> c]
    /\ game = NoGame
    /\ socket = NewSocket

NextSocket ==
    \/ CallConnect
    \/ TimerFires
    \/ CallDisconnect
    \/ \E i \in DOMAIN socket.state : OnOpen(i)
    \/ \E i \in DOMAIN socket.state : OnClose(i)

SpecSocket == InitSocket /\ [][NextSocket]_vars

\* The step creates a WebSocket.
Attempts == Len(socket'.state) > Len(socket.state)

\* C39: while this.ws is null after a disconnect(), the only step that
\* creates a WebSocket is a call of connect() by the page: none is created
\* by a timer.
C39_NoConnectAfterDisconnect ==
    [][(socket.ws = 0 /\ socket.state # <<>> /\ Attempts) =>
          socket'.timers = socket.timers]_vars

\* The step delivers the open event of a WebSocket.
OpenEvent == \E i \in DOMAIN socket.state :
             socket.state[i] = "connecting" /\ socket'.state[i] = "open"

\* The step delivers the close event of a WebSocket.
CloseEvent == \E i \in DOMAIN socket.state :
             socket.state[i] # "closed" /\ socket'.state[i] = "closed"

\* C40: reconnectAttempts never exceeds 5; an open event sets it to 0; a
\* close event at 5 schedules no connect and leaves it at 5, a close event
\* below 5 adds one to it and schedules one connect; nothing else schedules
\* a connect.
C40_AtMostFiveAttempts ==
    [][/\ socket'.reconnectAttempts <= 5
       /\ OpenEvent => socket'.reconnectAttempts = 0
       /\ CloseEvent =>
            IF socket.reconnectAttempts = 5
            THEN /\ socket'.timers = socket.timers
                 /\ socket'.reconnectAttempts = 5
            ELSE /\ socket'.timers = socket.timers + 1
                 /\ socket'.reconnectAttempts = socket.reconnectAttempts + 1
       /\ socket'.timers > socket.timers => CloseEvent]_vars

\* The first connection and five reconnections have failed, and the close
\* event of the last has scheduled nothing.
C40_Witness ==
    /\ socket.reconnectAttempts = 5
    /\ socket.timers = 0
    /\ socket.ws = 6
    /\ socket.state = [i \in 1 .. 6 |-> "closed"]

====
